---- MODULE Spec2Model ----
(***************************************************************************)
(* ClientIQ backend (backend/server.py): authentication, the write         *)
(* endpoints and the analytics endpoints over the users, clients, projects *)
(* and invoices collections.                                               *)
(*                                                                         *)
(* `users` is the users collection and `pending` the register requests     *)
(* that are suspended between their lookup and their insert.  `call` is    *)
(* the get_client_profitability request that is suspended at an await, if  *)
(* any.                                                                    *)
(*                                                                         *)
(* Documents are schema-less, so a field holds a tagged value:             *)
(*   [t |-> "none"]      Python None (or JSON null)                        *)
(*   [t |-> "num"]       an int/float, v its value                         *)
(*   [t |-> "str"]       a string that is neither a number nor an ISO date *)
(*   [t |-> "iso"]       an ISO-8601 string with a UTC offset, v its day   *)
(*   [t |-> "isonaive"]  an ISO-8601 string without offset, v its day      *)
(* Money is counted in hundredths and stored amounts are whole units, so   *)
(* that the factor 0.75 is exact; instants are counted in whole days.      *)
(***************************************************************************)
EXTENDS Integers, Sequences, FiniteSets, TLC

VARIABLES users, pending, clients, projects, invoices, now, resp, call

vars == <<users, pending, clients, projects, invoices, now, resp, call>>

\* ------------------------------------------------------------------ bounds
MaxInvoices == 2
MaxAmount == 2

\* --------------------------------------------------------- program constants
\* days_sales_outstanding placeholder of get_kpis
DSO == 45

\* ------------------------------------------------------------------ values
NoneV == [t |-> "none", v |-> 0]
Num(n) == [t |-> "num", v |-> n]
BadStr == [t |-> "str", v |-> 0]
Iso(d) == [t |-> "iso", v |-> d]
IsoNaive(d) == [t |-> "isonaive", v |-> d]

\* Python truthiness of a field value (non-empty strings are truthy)
Truthy(x) == x.t # "none" /\ ~(x.t = "num" /\ x.v = 0)

IsNum(x) == x.t = "num"

SeqUpTo(S, n) == UNION {[1..k -> S] : k \in 0..n}

RECURSIVE SumSeq(_)
SumSeq(s) == IF s = <<>> THEN 0 ELSE Head(s) + SumSeq(Tail(s))

\* collection.find({"user_id": u}).to_list(): the matching documents in
\* natural order
FindUser(coll, u) == SelectSeq(coll, LAMBDA d : d.user_id = u)

\* the values of one field of a list of documents, in order
Field(docs, f) == [i \in 1..Len(docs) |-> docs[i][f]]

\* Python's sum(...) over field values: int + None or int + str is a TypeError
SumRaises(vals) == \E i \in 1..Len(vals) : ~IsNum(vals[i])
PySum(vals) == SumSeq([i \in 1..Len(vals) |-> vals[i].v])

\* mutant: the overhead rate taken for the profit factor
Times075_Overhead(x) == (x * 25) \div 100

\* x * 0.75, on hundredths
Times075(x) == (x * 75) \div 100

\* (profit / revenue * 100) if revenue > 0 else 0
MarginPercent(profit, revenue) ==
    IF revenue > 0 THEN (profit * 100) \div revenue ELSE 0

\* ---------------------------------------------------------------- responses
NoResp == [op |-> "none", user |-> "", status |-> 0, body |-> <<>>]
Ok200(name, u, b) == [op |-> name, user |-> u, status |-> 200, body |-> b]
\* an exception that leaves the handler: Internal Server Error
Err500(name, u) == [op |-> name, user |-> u, status |-> 500, body |-> <<>>]

\* no request is suspended at an await
NoCall == [phase |-> "idle"]

\* ------------------------------------------------------------------ get_kpis
\* mutant: an invoice that carries a paid_date counts as paid
IsPaid_Dated(d) == d.status = "paid" \/ Truthy(d.paid_date)

IsPaid(d) == d.status = "paid"

\* mutant: everything that is not paid is outstanding
IsOutstanding_NotPaid(d) == d.status # "paid"

IsOutstanding(d) == d.status \in {"unpaid", "overdue"}

\* (inv for inv in invoices if inv["status"] == "paid"), and the like
Paid(invs) == SelectSeq(invs, IsPaid)
Outstanding(invs) == SelectSeq(invs, IsOutstanding)

KpiBody(u) ==
    LET invs == FindUser(invoices, u)
        total_revenue == PySum(Field(Paid(invs), "amount"))
        outstanding_ar == PySum(Field(Outstanding(invs), "amount"))
        total_hours == PySum(Field(invs, "hours_billed"))
        gross_profit == Times075(total_revenue)
    IN [total_revenue |-> total_revenue,
        gross_profit |-> gross_profit,
        gross_margin_percent |-> MarginPercent(gross_profit, total_revenue),
        outstanding_ar |-> outstanding_ar,
        days_sales_outstanding |-> DSO,
        billable_hours |-> total_hours]

KpiRaises(u) ==
    LET invs == FindUser(invoices, u)
    IN \/ SumRaises(Field(Paid(invs), "amount"))
       \/ SumRaises(Field(Outstanding(invs), "amount"))
       \/ SumRaises(Field(invs, "hours_billed"))

get_kpis(u) ==
    /\ resp' = IF KpiRaises(u) THEN Err500("get_kpis", u)
               ELSE Ok200("get_kpis", u, KpiBody(u))
    /\ UNCHANGED <<users, pending, clients, projects, invoices, now, call>>

\* -------------------------------------------------------------- get_ar_aging
\* find({"status": {"$in": ["unpaid", "overdue"]}, "user_id": u})
FindOutstanding(coll, u) ==
    SelectSeq(coll, LAMBDA d : IsOutstanding(d) /\ d.user_id = u)

BucketLabels == {"0-30", "31-60", "61-90", "90+"}

\* mutant: the bucket bounds taken exclusive
AgingBucket_Exclusive(days_overdue) ==
    IF days_overdue < 30 THEN "0-30"
    ELSE IF days_overdue < 60 THEN "31-60"
    ELSE IF days_overdue < 90 THEN "61-90"
    ELSE "90+"

AgingBucket(days_overdue) ==
    IF days_overdue <= 30 THEN "0-30"
    ELSE IF days_overdue <= 60 THEN "31-60"
    ELSE IF days_overdue <= 90 THEN "61-90"
    ELSE "90+"

\* datetime.fromisoformat(s.replace('Z', '+00:00')) raises ValueError
IsoParses(x) == x.t \in {"iso", "isonaive"}

\* The body of the loop raises (and the except clause skips the invoice) when
\* the due date does not parse, when it is not a string (a number cannot be
\* subtracted from a datetime), when it parses to a naive datetime (aware -
\* naive is a TypeError), or when the amount cannot be added to a number.
AgingRaises(inv) ==
    /\ Truthy(inv.due_date)
    /\ \/ inv.due_date.t # "iso"
       \/ ~IsNum(inv.amount)

\* one iteration of the loop over unpaid_invoices
AgingStep(buckets, inv) ==
    IF ~Truthy(inv.due_date) \/ AgingRaises(inv) THEN buckets
    ELSE LET days_overdue == now - inv.due_date.v
             b == AgingBucket(days_overdue)
         IN [buckets EXCEPT ![b] = @ + inv.amount.v]

RECURSIVE AgingLoop(_, _)
AgingLoop(buckets, invs) ==
    IF invs = <<>> THEN buckets
    ELSE AgingLoop(AgingStep(buckets, Head(invs)), Tail(invs))

AgingBody(u) ==
    AgingLoop([b \in BucketLabels |-> 0], FindOutstanding(invoices, u))

\* mutant: the classifier also stores the status "overdue" on the unpaid
\* invoices that are past due
get_ar_aging_MarkOverdue(u) ==
    /\ resp' = Ok200("get_ar_aging", u, AgingBody(u))
    /\ invoices' =
           [i \in DOMAIN invoices |->
               IF /\ invoices[i].user_id = u
                  /\ invoices[i].status = "unpaid"
                  /\ invoices[i].due_date.t = "iso"
                  /\ now - invoices[i].due_date.v > 0
               THEN [invoices[i] EXCEPT !.status = "overdue"]
               ELSE invoices[i]]
    /\ UNCHANGED <<users, pending, clients, projects, now, call>>

get_ar_aging(u) ==
    /\ resp' = Ok200("get_ar_aging", u, AgingBody(u))
    /\ UNCHANGED <<users, pending, clients, projects, invoices, now, call>>

\* ------------------------------------------------- get_client_profitability
\* find({"client_id": cid, "user_id": u})
FindUserClient(coll, u, cid) ==
    SelectSeq(coll, LAMBDA d : d.client_id = cid /\ d.user_id = u)

\* float(x or 0): None, 0 and "" give 0.0, a number itself, and any other
\* string here a ValueError
FloatOrZeroRaises(x) == Truthy(x) /\ ~IsNum(x)
FloatOrZero(x) == IF Truthy(x) THEN x.v ELSE 0
FloatSumRaises(vals) == \E i \in 1..Len(vals) : FloatOrZeroRaises(vals[i])
FloatSum(vals) == SumSeq([i \in 1..Len(vals) |-> FloatOrZero(vals[i])])

RECURSIVE MaxDay(_)
MaxDay(dates) ==
    IF Len(dates) = 1 THEN dates[1].v
    ELSE LET m == MaxDay(Tail(dates))
         IN IF dates[1].v >= m THEN dates[1].v ELSE m

\* "Safe last invoice date": the maximum of the parsed truthy invoice_date
\* values; the try/except around max() turns any failure (a value that is not
\* a string, a string that does not parse, a naive datetime compared with an
\* aware one) into None.  The result is the datetime as the response carries it.
LastInvoiceDate(invs) ==
    LET valid == SelectSeq(Field(invs, "invoice_date"), Truthy)
    IN IF valid = <<>> THEN NoneV
       ELSE IF \E i \in 1..Len(valid) : ~IsoParses(valid[i]) THEN NoneV
       ELSE IF \E i, j \in 1..Len(valid) : valid[i].t # valid[j].t THEN NoneV
       ELSE [t |-> valid[1].t, v |-> MaxDay(valid)]

\* profit / hours_worked if hours_worked > 0 else 0
ProfitPerHour(profit, hours_worked) ==
    IF hours_worked > 0 THEN profit \div hours_worked ELSE 0

\* mutant: the revenue summed without float(... or 0), as get_kpis does
ClientRaises_RawRevenue(u, client) ==
    LET invs == FindUserClient(invoices, u, client.id)
        projs == FindUserClient(projects, u, client.id)
    IN \/ SumRaises(Field(Paid(invs), "amount"))
       \/ FloatSumRaises(Field(projs, "hours_worked"))
       \/ FloatSumRaises(Field(Outstanding(invs), "amount"))
       \/ client.name.t # "str"

\* The try block of one client raises, given the invoices and projects read
\* for it: float() of a non-numeric amount of a paid, unpaid or overdue
\* invoice or of a non-numeric hours_worked, or the ClientProfitability model
\* refusing a client_name that is not a string.
ClientRaisesOf(client, invs, projs) ==
    \/ FloatSumRaises(Field(Paid(invs), "amount"))
    \/ FloatSumRaises(Field(projs, "hours_worked"))
    \/ FloatSumRaises(Field(Outstanding(invs), "amount"))
    \/ client.name.t # "str"

ClientRaises(u, client) ==
    ClientRaisesOf(client, FindUserClient(invoices, u, client.id),
                   FindUserClient(projects, u, client.id))

\* the ClientProfitability record built from the invoices and projects read
\* for one client
ClientRecordOf(client, invs, projs) ==
    LET revenue == FloatSum(Field(Paid(invs), "amount"))
        hours_worked == FloatSum(Field(projs, "hours_worked"))
        outstanding_ar == FloatSum(Field(Outstanding(invs), "amount"))
        profit == Times075(revenue)
    IN [client_id |-> client.id,
        client_name |-> client.name,
        revenue |-> revenue,
        hours_worked |-> hours_worked,
        profit |-> profit,
        margin_percent |-> MarginPercent(profit, revenue),
        profit_per_hour |-> ProfitPerHour(profit, hours_worked),
        outstanding_ar |-> outstanding_ar,
        last_invoice_date |-> LastInvoiceDate(invs)]

ClientRecord(u, client) ==
    ClientRecordOf(client, FindUserClient(invoices, u, client.id),
                   FindUserClient(projects, u, client.id))

\* mutant: a client without invoices is passed over, as get_rfm_analysis does
RECURSIVE ProfitabilityLoop_SkipIdle(_, _)
ProfitabilityLoop_SkipIdle(u, cs) ==
    IF cs = <<>> THEN <<>>
    ELSE IF \/ ClientRaises(u, Head(cs))
            \/ FindUserClient(invoices, u, Head(cs).id) = <<>>
         THEN ProfitabilityLoop_SkipIdle(u, Tail(cs))
    ELSE <<ClientRecord(u, Head(cs))>> \o ProfitabilityLoop_SkipIdle(u, Tail(cs))

\* the loop over the clients: a client whose try block raises is skipped
RECURSIVE ProfitabilityLoop(_, _)
ProfitabilityLoop(u, cs) ==
    IF cs = <<>> THEN <<>>
    ELSE IF ClientRaises(u, Head(cs)) THEN ProfitabilityLoop(u, Tail(cs))
    ELSE <<ClientRecord(u, Head(cs))>> \o ProfitabilityLoop(u, Tail(cs))

\* mutant: a record goes before the records of equal revenue
InsertByRevenue_Unstable(sorted, x) ==
    LET before == {i \in 1..Len(sorted) : sorted[i].revenue > x.revenue}
        k == Cardinality(before)
    IN SubSeq(sorted, 1, k) \o <<x>> \o SubSeq(sorted, k + 1, Len(sorted))

\* list.sort(key=revenue, reverse=True) is stable: a record goes behind the
\* records of greater or equal revenue that precede it in the list
InsertByRevenue(sorted, x) ==
    LET before == {i \in 1..Len(sorted) : sorted[i].revenue >= x.revenue}
        k == Cardinality(before)
    IN SubSeq(sorted, 1, k) \o <<x>> \o SubSeq(sorted, k + 1, Len(sorted))

RECURSIVE SortByRevenue(_)
SortByRevenue(s) ==
    IF s = <<>> THEN <<>>
    ELSE InsertByRevenue(SortByRevenue(SubSeq(s, 1, Len(s) - 1)), s[Len(s)])

ProfitabilityBody(u) ==
    SortByRevenue(ProfitabilityLoop(u, FindUser(clients, u)))

get_client_profitability(u) ==
    /\ resp' = Ok200("get_client_profitability", u, ProfitabilityBody(u))
    /\ UNCHANGED <<users, pending, clients, projects, invoices, now, call>>

\* ------------------------------------------------------- get_client_details
\* parse_from_mongo on a *_date field: an ISO string becomes a datetime, any
\* other value stays as it is
ParseDate(x) ==
    IF x.t = "iso" THEN [t |-> "datetime", v |-> x.v]
    ELSE IF x.t = "isonaive" THEN [t |-> "datetime_naive", v |-> x.v]
    ELSE x

ParseFromMongo(d) ==
    [d EXCEPT !.invoice_date = ParseDate(@), !.due_date = ParseDate(@),
              !.paid_date = ParseDate(@)]

\* The handler's try block raises: no such client of the caller (the
\* HTTPException 404 is caught by the handler's own `except Exception`), or a
\* sum over a value that is not a number.
DetailsRaises(u, cid) ==
    LET invs == FindUserClient(invoices, u, cid)
        projs == FindUserClient(projects, u, cid)
    IN \/ SelectSeq(clients, LAMBDA c : c.id = cid /\ c.user_id = u) = <<>>
       \/ SumRaises(Field(Paid(invs), "amount"))
       \/ SumRaises(Field(projs, "hours_worked"))
       \/ SumRaises(Field(Outstanding(invs), "amount"))

DetailsBody(u, cid) ==
    LET client == Head(SelectSeq(clients, LAMBDA c : c.id = cid /\ c.user_id = u))
        invs == FindUserClient(invoices, u, cid)
        projs == FindUserClient(projects, u, cid)
        total_revenue == PySum(Field(Paid(invs), "amount"))
    IN [client |-> client,
        projects |-> projs,
        invoices |-> [i \in 1..Len(invs) |-> ParseFromMongo(invs[i])],
        summary |->
            [total_revenue |-> total_revenue,
             total_hours |-> PySum(Field(projs, "hours_worked")),
             outstanding_ar |-> PySum(Field(Outstanding(invs), "amount")),
             profit |-> Times075(total_revenue),
             margin_percent |->
                 MarginPercent(Times075(total_revenue), total_revenue)]]

get_client_details(u, cid) ==
    /\ resp' = IF DetailsRaises(u, cid) THEN Err500("get_client_details", u)
               ELSE Ok200("get_client_details", u, DetailsBody(u, cid))
    /\ UNCHANGED <<users, pending, clients, projects, invoices, now, call>>

\* ---------------------------------------------------------- get_rfm_analysis
\* d = inv.get("invoice_date") or inv.get("paid_date")
DateOf(inv) == IF Truthy(inv.invoice_date) THEN inv.invoice_date ELSE inv.paid_date

\* The recency loop over a client's invoices, from the last date so far:
\* [raised, last].  A date that is falsy or does not parse is passed over; the
\* comparison d > last_invoice_date is outside the inner try and raises
\* TypeError between a naive and an aware datetime.
RECURSIVE RecencyLoop(_, _)
RecencyLoop(invs, last) ==
    IF invs = <<>> THEN [raised |-> FALSE, last |-> last]
    ELSE LET d == DateOf(Head(invs))
         IN IF ~Truthy(d) \/ d.t = "str" THEN RecencyLoop(Tail(invs), last)
            ELSE IF last.t = "none" THEN RecencyLoop(Tail(invs), d)
            ELSE IF d.t # last.t THEN [raised |-> TRUE, last |-> last]
            ELSE IF d.v > last.v THEN RecencyLoop(Tail(invs), d)
            ELSE RecencyLoop(Tail(invs), last)

\* the sentinel of a client without usable date
NoRecency == 9999

\* The body of the loop over the clients raises: the recency loop, the
\* subtraction now - last_invoice_date for a last date that is not an aware
\* datetime, or float() of a non-numeric amount.
RfmRowRaises(invs) ==
    LET rec == RecencyLoop(invs, NoneV)
    IN \/ rec.raised
       \/ rec.last.t \notin {"none", "iso"}
       \/ FloatSumRaises(Field(invs, "amount"))

\* mutant: monetary summed over the paid invoices only
RfmRow_PaidOnly(client, invs) ==
    LET last == RecencyLoop(invs, NoneV).last
    IN [client_id |-> client.id,
        client_name |-> client.name,
        recency_days |-> IF last.t = "none" THEN NoRecency ELSE now - last.v,
        frequency |-> Len(invs),
        monetary |-> FloatSum(Field(Paid(invs), "amount")),
        last_invoice_date |-> last]

RfmRow(client, invs) ==
    LET last == RecencyLoop(invs, NoneV).last
    IN [client_id |-> client.id,
        client_name |-> client.name,
        recency_days |-> IF last.t = "none" THEN NoRecency ELSE now - last.v,
        frequency |-> Len(invs),
        monetary |-> FloatSum(Field(invs, "amount")),
        last_invoice_date |-> last]

\* invoices_by_client.get(cid, []): the caller's invoices of the client, a
\* falsy client_id being left out of the grouping
InvoicesByClient(u, cid) ==
    SelectSeq(FindUser(invoices, u), LAMBDA d : d.client_id # "" /\ d.client_id = cid)

\* the loop over the clients: clients without invoices are passed over
RECURSIVE RfmData(_, _)
RfmData(u, cs) ==
    IF cs = <<>> THEN <<>>
    ELSE LET invs == InvoicesByClient(u, Head(cs).id)
         IN IF invs = <<>> THEN RfmData(u, Tail(cs))
            ELSE <<RfmRow(Head(cs), invs)>> \o RfmData(u, Tail(cs))

\* mutant: the amounts of all the caller's invoices are converted first
RfmRaises_AllInvoices(u) ==
    \/ FloatSumRaises(Field(FindUser(invoices, u), "amount"))
    \/ \E i \in DOMAIN clients :
          /\ clients[i].user_id = u
          /\ InvoicesByClient(u, clients[i].id) # <<>>
          /\ RfmRowRaises(InvoicesByClient(u, clients[i].id))

RfmRaises(u) ==
    \E i \in DOMAIN clients :
        /\ clients[i].user_id = u
        /\ InvoicesByClient(u, clients[i].id) # <<>>
        /\ RfmRowRaises(InvoicesByClient(u, clients[i].id))

\* sorted(values)
RECURSIVE SortAsc(_)
SortAsc(s) ==
    IF s = <<>> THEN <<>>
    ELSE LET rest == SortAsc(Tail(s))
             k == Cardinality({i \in 1..Len(rest) : rest[i] <= Head(s)})
         IN SubSeq(rest, 1, k) \o <<Head(s)>> \o SubSeq(rest, k + 1, Len(rest))

Min2(a, b) == IF a <= b THEN a ELSE b
Max2(a, b) == IF a >= b THEN a ELSE b

\* mutant: the score is not clamped to 1..5
quintile_Unclamped(sorted_vals, v, invert) ==
    IF sorted_vals = <<>> THEN 1
    ELSE LET n == Len(sorted_vals)
             hits == {i \in 1..n : sorted_vals[i] >= v}
             pos == IF hits = {} THEN n - 1
                    ELSE (CHOOSE i \in hits : \A j \in hits : i <= j) - 1
             score == ((pos * 5) \div Max2(n - 1, 1)) + 1
         IN IF invert THEN 6 - score ELSE score

\* mutant: the position is scaled by n instead of n - 1
quintile_DivN(sorted_vals, v, invert) ==
    IF sorted_vals = <<>> THEN 1
    ELSE LET n == Len(sorted_vals)
             hits == {i \in 1..n : sorted_vals[i] >= v}
             pos == IF hits = {} THEN n - 1
                    ELSE (CHOOSE i \in hits : \A j \in hits : i <= j) - 1
             raw == ((pos * 5) \div n) + 1
             score == Min2(Max2(raw, 1), 5)
         IN IF invert THEN 6 - score ELSE score

\* mutant: the position is that of the last value not greater than v
quintile_Rightmost(sorted_vals, v, invert) ==
    IF sorted_vals = <<>> THEN 1
    ELSE LET n == Len(sorted_vals)
             hits == {i \in 1..n : sorted_vals[i] <= v}
             pos == IF hits = {} THEN n - 1
                    ELSE (CHOOSE i \in hits : \A j \in hits : i >= j) - 1
             raw == ((pos * 5) \div Max2(n - 1, 1)) + 1
             score == Min2(Max2(raw, 1), 5)
         IN IF invert THEN 6 - score ELSE score

\* mutant: the position is that of the first value greater than v
quintile_Strict(sorted_vals, v, invert) ==
    IF sorted_vals = <<>> THEN 1
    ELSE LET n == Len(sorted_vals)
             hits == {i \in 1..n : sorted_vals[i] > v}
             pos == IF hits = {} THEN n - 1
                    ELSE (CHOOSE i \in hits : \A j \in hits : i <= j) - 1
             raw == ((pos * 5) \div Max2(n - 1, 1)) + 1
             score == Min2(Max2(raw, 1), 5)
         IN IF invert THEN 6 - score ELSE score

\* quintile(sorted_vals, v, invert); pos counts from 0
quintile(sorted_vals, v, invert) ==
    IF sorted_vals = <<>> THEN 1
    ELSE LET n == Len(sorted_vals)
             hits == {i \in 1..n : sorted_vals[i] >= v}
             pos == IF hits = {} THEN n - 1
                    ELSE (CHOOSE i \in hits : \A j \in hits : i <= j) - 1
             raw == ((pos * 5) \div Max2(n - 1, 1)) + 1
             score == Min2(Max2(raw, 1), 5)
         IN IF invert THEN 6 - score ELSE score

\* mutant: the Loyal rule tried before the Champion rule
Segment_LoyalFirst(R, F, M) ==
    IF F >= 4 /\ M >= 4 THEN "Loyal"
    ELSE IF R >= 4 /\ F >= 4 /\ M >= 4 THEN "Champion"
    ELSE IF R >= 4 /\ F >= 2 THEN "Potential"
    ELSE IF R <= 2 /\ (F >= 3 \/ M >= 3) THEN "At Risk"
    ELSE IF R <= 2 /\ F <= 2 /\ M <= 2 THEN "Lost"
    ELSE "Other"

Segment(R, F, M) ==
    IF R >= 4 /\ F >= 4 /\ M >= 4 THEN "Champion"
    ELSE IF F >= 4 /\ M >= 4 THEN "Loyal"
    ELSE IF R >= 4 /\ F >= 2 THEN "Potential"
    ELSE IF R <= 2 /\ (F >= 3 \/ M >= 3) THEN "At Risk"
    ELSE IF R <= 2 /\ F <= 2 /\ M <= 2 THEN "Lost"
    ELSE "Other"

Scored(row, rec_vals, freq_vals, mon_vals) ==
    LET R == quintile(rec_vals, row.recency_days, TRUE)
        F == quintile(freq_vals, row.frequency, FALSE)
        M == quintile(mon_vals, row.monetary, FALSE)
    IN [client_id |-> row.client_id,
        client_name |-> row.client_name,
        recency_days |-> row.recency_days,
        frequency |-> row.frequency,
        monetary |-> row.monetary,
        last_invoice_date |-> row.last_invoice_date,
        R |-> R, F |-> F, M |-> M,
        rfm_score |-> R + F + M,
        segment |-> Segment(R, F, M)]

\* mutant: sorted by rfm_score alone
InsertByScore_ScoreOnly(sorted, x) ==
    LET before == {i \in 1..Len(sorted) : sorted[i].rfm_score >= x.rfm_score}
        k == Cardinality(before)
    IN SubSeq(sorted, 1, k) \o <<x>> \o SubSeq(sorted, k + 1, Len(sorted))

\* sort(key=(rfm_score, monetary), reverse=True), stable
InsertByScore(sorted, x) ==
    LET before == {i \in 1..Len(sorted) :
                      \/ sorted[i].rfm_score > x.rfm_score
                      \/ /\ sorted[i].rfm_score = x.rfm_score
                         /\ sorted[i].monetary >= x.monetary}
        k == Cardinality(before)
    IN SubSeq(sorted, 1, k) \o <<x>> \o SubSeq(sorted, k + 1, Len(sorted))

RECURSIVE SortByScore(_)
SortByScore(s) ==
    IF s = <<>> THEN <<>>
    ELSE InsertByScore(SortByScore(SubSeq(s, 1, Len(s) - 1)), s[Len(s)])

RfmBody(u) ==
    LET rfm_data == RfmData(u, FindUser(clients, u))
        rec_vals == SortAsc([i \in 1..Len(rfm_data) |-> rfm_data[i].recency_days])
        freq_vals == SortAsc([i \in 1..Len(rfm_data) |-> rfm_data[i].frequency])
        mon_vals == SortAsc([i \in 1..Len(rfm_data) |-> rfm_data[i].monetary])
    IN SortByScore([i \in 1..Len(rfm_data) |->
                       Scored(rfm_data[i], rec_vals, freq_vals, mon_vals)])

get_rfm_analysis(u) ==
    /\ resp' = IF RfmRaises(u) THEN Err500("get_rfm_analysis", u)
               ELSE Ok200("get_rfm_analysis", u, RfmBody(u))
    /\ UNCHANGED <<users, pending, clients, projects, invoices, now, call>>

\* ------------------------------------------------------------ input domains
UserIds == {"u1", "u2"}
ClientIds == {"c1", "c2"}

\* a document of the users collection
UserDoc(id, email) == [id |-> id, email |-> email]
Emails == {"a@x", "b@x"}
\* the users whose requests the slices below serve
StoredUsers == <<UserDoc("u1", "a@x"), UserDoc("u2", "b@x")>>
\* no register request is in flight
NoPending == {}

Statuses == {"paid", "unpaid", "overdue", "draft"}
Amounts == {Num(100 * k) : k \in 0..MaxAmount}
Today == 100

InvoiceDoc(u, c, st, am, hb, idt, ddt, pdt) ==
    [user_id |-> u, client_id |-> c, status |-> st, amount |-> am,
     hours_billed |-> hb, invoice_date |-> idt, due_date |-> ddt,
     paid_date |-> pdt]

\* invoices as the KPI aggregation reads them: status, amount, hours, paid_date
KpiInvoices ==
    {InvoiceDoc("u1", "c1", st, am, hb, Iso(50), Iso(80), pdt) :
        st \in Statuses, am \in Amounts \cup {NoneV},
        hb \in {Num(2), BadStr}, pdt \in {NoneV, Iso(90)}}
    \cup {InvoiceDoc("u2", "c1", "paid", Num(100), Num(2), Iso(50), Iso(80), NoneV)}

InitKpis ==
    /\ clients = <<>>
    /\ projects = <<>>
    /\ invoices \in SeqUpTo(KpiInvoices, MaxInvoices)
    /\ now = Today
    /\ resp = NoResp
    /\ call = NoCall
    /\ users = StoredUsers
    /\ pending = NoPending

\* one call on the snapshot
NextKpis == resp = NoResp /\ \E u \in UserIds : get_kpis(u)

SpecKpis == InitKpis /\ [][NextKpis]_vars

\* invoices as the aging classifier reads them: every status with usable and
\* unusable due dates and amounts, and unpaid invoices due around each bucket
\* bound (a due date after `now` included)
AgingInvoices ==
    {InvoiceDoc("u1", "c1", st, am, Num(2), Iso(50), ddt, NoneV) :
        st \in {"paid", "unpaid", "overdue"}, am \in Amounts \cup {NoneV},
        ddt \in {NoneV, BadStr, IsoNaive(Today - 40), Iso(Today - 40)}}
    \cup {InvoiceDoc("u1", "c1", "unpaid", Num(100), Num(2), Iso(50), Iso(Today - k), NoneV) :
            k \in {-1, 0, 30, 31, 60, 61, 90, 91}}
    \cup {InvoiceDoc("u2", "c1", "unpaid", Num(100), Num(2), Iso(50), Iso(Today - 40), NoneV)}

InitAging ==
    /\ clients = <<>>
    /\ projects = <<>>
    /\ invoices \in SeqUpTo(AgingInvoices, MaxInvoices)
    /\ now = Today
    /\ resp = NoResp
    /\ call = NoCall
    /\ users = StoredUsers
    /\ pending = NoPending

NextAging == resp = NoResp /\ \E u \in UserIds : get_ar_aging(u) \/ get_kpis(u)

SpecAging == InitAging /\ [][NextAging]_vars

MaxClients == 2
MaxProjects == 1

ClientDoc(u, id, name) == [user_id |-> u, id |-> id, name |-> name]
ProjectDoc(u, c, hw) == [user_id |-> u, client_id |-> c, hours_worked |-> hw]

\* a client name is a plain string
ClientName == BadStr

\* The profitability slice: client c2 is well-formed, client c1 may carry the
\* malformed values, and the client list holds them in either order.
ProfitClients ==
    {cs \in SeqUpTo({ClientDoc("u1", c, ClientName) : c \in ClientIds}, MaxClients) :
        \A i, j \in DOMAIN cs : i # j => cs[i].id # cs[j].id}

ProfitProjects ==
    SeqUpTo({ProjectDoc("u1", "c1", Num(2)), ProjectDoc("u1", "c2", Num(2)),
             ProjectDoc("u1", "c1", BadStr)}, MaxProjects)

\* invoices as the profitability ranker reads them: client, status, amount
\* (numeric, null or not a number) and invoice_date (null, unparseable, with
\* or without offset)
ProfitInvoices ==
    {InvoiceDoc("u1", c, "paid", am, Num(2), Iso(50), Iso(80), NoneV) :
        c \in ClientIds, am \in Amounts \ {Num(0)}}
    \cup {InvoiceDoc("u1", "c1", "paid", am, Num(2), Iso(50), Iso(80), NoneV) :
            am \in {NoneV, BadStr}}
    \cup {InvoiceDoc("u1", c, "unpaid", Num(100), Num(2), Iso(50), Iso(80), NoneV) :
            c \in ClientIds}
    \cup {InvoiceDoc("u1", "c1", st, BadStr, Num(2), Iso(50), Iso(80), NoneV) :
            st \in {"unpaid", "draft"}}
    \cup {InvoiceDoc("u1", "c1", "paid", Num(100), Num(2), idt, Iso(80), NoneV) :
            idt \in {NoneV, BadStr, IsoNaive(60), Iso(40)}}
    \cup {InvoiceDoc("u1", "c2", "paid", Num(100), Num(2), BadStr, Iso(80), NoneV)}

InitProfit ==
    /\ clients \in ProfitClients
    /\ projects \in ProfitProjects
    /\ invoices \in SeqUpTo(ProfitInvoices, MaxInvoices)
    /\ now = Today
    /\ resp = NoResp
    /\ call = NoCall
    /\ users = StoredUsers
    /\ pending = NoPending

\* one call on the snapshot, by the owner of the documents
NextProfit ==
    /\ resp = NoResp
    /\ \E u \in {"u1"} :
        \/ get_client_profitability(u)
        \/ get_rfm_analysis(u)
        \/ get_kpis(u)
        \/ \E cid \in ClientIds : get_client_details(u, cid)

SpecProfit == InitProfit /\ [][NextProfit]_vars

\* ----------------------------------------------------------------------
\* Properties
\* ----------------------------------------------------------------------
RECURSIVE SetSum(_, _)
SetSum(S, f) ==
    IF S = {} THEN 0
    ELSE LET x == CHOOSE y \in S : TRUE IN f[x] + SetSum(S \ {x}, f)

\* the positions of the invoices of user u, and of those with a given status
Mine(u) == {i \in DOMAIN invoices : invoices[i].user_id = u}
WithStatus(u, S) == {i \in Mine(u) : invoices[i].status \in S}

AmountAt == [i \in DOMAIN invoices |-> invoices[i].amount.v]
HoursAt == [i \in DOMAIN invoices |-> invoices[i].hours_billed.v]
AmountOrZeroAt ==
    [i \in DOMAIN invoices |->
        IF IsNum(invoices[i].amount) THEN invoices[i].amount.v ELSE 0]
HoursOrZeroAt ==
    [i \in DOMAIN invoices |->
        IF IsNum(invoices[i].hours_billed) THEN invoices[i].hours_billed.v ELSE 0]

WellTyped(u) ==
    \A i \in Mine(u) : IsNum(invoices[i].amount) /\ IsNum(invoices[i].hours_billed)

KpisAnswered == resp.op = "get_kpis" /\ resp.status = 200

\* C1: on invoices with numeric amount and hours get_kpis answers, with
\* total_revenue the sum of amount over the caller's invoices whose status is
\* exactly "paid", outstanding_ar the sum over "unpaid" and "overdue", and
\* billable_hours the sum of hours_billed over all of them; paid_date is not
\* read, so no sum depends on it.
C1_KpiSums ==
    (resp.op = "get_kpis" /\ WellTyped(resp.user)) =>
        /\ resp.status = 200
        /\ resp.body.total_revenue =
               SetSum(WithStatus(resp.user, {"paid"}), AmountAt)
        /\ resp.body.outstanding_ar =
               SetSum(WithStatus(resp.user, {"unpaid", "overdue"}), AmountAt)
        /\ resp.body.billable_hours = SetSum(Mine(resp.user), HoursAt)

\* C1 witness: an answer over an unpaid invoice that carries a paid_date and a
\* paid invoice without one
C1_Witness ==
    /\ KpisAnswered
    /\ WellTyped(resp.user)
    /\ \E i, j \in Mine(resp.user) :
          /\ invoices[i].status = "unpaid" /\ Truthy(invoices[i].paid_date)
          /\ invoices[j].status = "paid" /\ ~Truthy(invoices[j].paid_date)
          /\ invoices[i].amount.v > 0 /\ invoices[j].amount.v > 0
    /\ resp.body.total_revenue > 0
    /\ resp.body.outstanding_ar > 0

OtherStatus(u) == Mine(u) \ WithStatus(u, {"paid", "unpaid", "overdue"})

\* C2 as stated: total_revenue + outstanding_ar <= sum of all amounts, with
\* equality only if every invoice is paid, unpaid or overdue.
C2_Original ==
    (KpisAnswered /\ WellTyped(resp.user)) =>
        /\ resp.body.total_revenue + resp.body.outstanding_ar
               <= SetSum(Mine(resp.user), AmountAt)
        /\ (resp.body.total_revenue + resp.body.outstanding_ar
               = SetSum(Mine(resp.user), AmountAt))
             => OtherStatus(resp.user) = {}

\* C2 amended: total_revenue + outstanding_ar <= sum of all amounts, with
\* equality exactly when every invoice of another status has amount 0.
C2_Partition ==
    (KpisAnswered /\ WellTyped(resp.user)) =>
        /\ resp.body.total_revenue + resp.body.outstanding_ar
               <= SetSum(Mine(resp.user), AmountAt)
        /\ (resp.body.total_revenue + resp.body.outstanding_ar
               = SetSum(Mine(resp.user), AmountAt))
             <=> (\A i \in OtherStatus(resp.user) : invoices[i].amount.v = 0)

\* C2 witness: an answer over a paid invoice and one of another status, both
\* with a positive amount (strict inequality)
C2_Witness ==
    /\ KpisAnswered
    /\ WellTyped(resp.user)
    /\ \E i \in OtherStatus(resp.user) : invoices[i].amount.v > 0
    /\ resp.body.total_revenue > 0
    /\ resp.body.total_revenue + resp.body.outstanding_ar
           < SetSum(Mine(resp.user), AmountAt)

\* C4: get_kpis always answers, a missing or non-numeric amount or
\* hours_billed counting as 0 in the sums.
C4_MalformedCountsZero ==
    resp.op = "get_kpis" =>
        /\ resp.status = 200
        /\ resp.body.total_revenue =
               SetSum(WithStatus(resp.user, {"paid"}), AmountOrZeroAt)
        /\ resp.body.outstanding_ar =
               SetSum(WithStatus(resp.user, {"unpaid", "overdue"}), AmountOrZeroAt)
        /\ resp.body.billable_hours = SetSum(Mine(resp.user), HoursOrZeroAt)

AgingAnswered == resp.op = "get_ar_aging" /\ resp.status = 200

\* an unpaid/overdue invoice the classifier can place: a due date that parses
\* to an aware instant and a numeric amount
Usable(i) == invoices[i].due_date.t = "iso" /\ IsNum(invoices[i].amount)
DaysOverdue(i) == now - invoices[i].due_date.v
InBucket(b, days) ==
    CASE b = "0-30" -> days <= 30
      [] b = "31-60" -> 31 <= days /\ days <= 60
      [] b = "61-90" -> 61 <= days /\ days <= 90
      [] b = "90+" -> days > 90
Placed(u, b) ==
    {i \in WithStatus(u, {"unpaid", "overdue"}) :
        Usable(i) /\ InBucket(b, DaysOverdue(i))}

\* C5: get_ar_aging always answers with exactly the keys 0-30, 31-60, 61-90,
\* 90+, each holding the sum of amount over the caller's unpaid/overdue
\* invoices with a usable due date whose days_overdue = now - due_date lies in
\* ..30, 31..60, 61..90, 91..; paid invoices are in no bucket.
C5_AgingBuckets ==
    resp.op = "get_ar_aging" =>
        /\ resp.status = 200
        /\ DOMAIN resp.body = {"0-30", "31-60", "61-90", "90+"}
        /\ \A b \in {"0-30", "31-60", "61-90", "90+"} :
              resp.body[b] = SetSum(Placed(resp.user, b), AmountAt)

\* C5 witness: an invoice exactly 30 days overdue counted in 0-30 next to one
\* 31 days overdue counted in 31-60
C5_Witness ==
    /\ AgingAnswered
    /\ \E i \in Placed(resp.user, "0-30") : DaysOverdue(i) = 30
    /\ \E j \in Placed(resp.user, "31-60") : DaysOverdue(j) = 31
    /\ resp.body["0-30"] > 0
    /\ resp.body["31-60"] > 0

BucketTotal(b) == b["0-30"] + b["31-60"] + b["61-90"] + b["90+"]

\* C6: the four buckets sum to the amounts of the caller's unpaid/overdue
\* invoices whose due date parses (those with a missing or unparseable due
\* date are skipped), hence to outstanding_ar when every such due date parses.
C6_BucketsSumToOutstanding ==
    (AgingAnswered /\ WellTyped(resp.user)) =>
        /\ BucketTotal(resp.body) =
               SetSum({i \in WithStatus(resp.user, {"unpaid", "overdue"}) :
                          IsoParses(invoices[i].due_date)}, AmountAt)
        /\ (\A i \in WithStatus(resp.user, {"unpaid", "overdue"}) :
                IsoParses(invoices[i].due_date))
             => BucketTotal(resp.body) = KpiBody(resp.user).outstanding_ar

\* the caller's clients, and a client's invoices, projects and result rows
ClientsOf(u) == {i \in DOMAIN clients : clients[i].user_id = u}
InvOf(u, cid) == {i \in Mine(u) : invoices[i].client_id = cid}
ProjOf(u, cid) ==
    {i \in DOMAIN projects :
        projects[i].user_id = u /\ projects[i].client_id = cid}
RowsFor(cid) == {k \in DOMAIN resp.body : resp.body[k].client_id = cid}

ProfitabilityAnswered ==
    resp.op = "get_client_profitability" /\ resp.status = 200

\* profit = revenue x 0.75, and the margin is profit / revenue x 100 for a
\* revenue > 0 and 0 otherwise, within 0..100
CostModel(revenue, profit, margin) ==
    /\ profit * 100 = revenue * 75
    /\ revenue > 0 => margin * revenue = profit * 100
    /\ revenue = 0 => margin = 0
    /\ 0 <= margin /\ margin <= 100

\* C3: in the KPIs, in every profitability record and in the client details
\* summary the profit is revenue x 0.75 and the margin is profit / revenue x
\* 100 for a revenue > 0 and exactly 0 for revenue 0, within 0..100; an empty
\* invoice set is answered with revenue, profit and margin 0.
C3_CostModel ==
    /\ KpisAnswered =>
          CostModel(resp.body.total_revenue, resp.body.gross_profit,
                    resp.body.gross_margin_percent)
    /\ (resp.op = "get_kpis" /\ Mine(resp.user) = {}) =>
          /\ resp.status = 200
          /\ resp.body.total_revenue = 0
          /\ resp.body.gross_margin_percent = 0
    /\ ProfitabilityAnswered =>
          \A k \in DOMAIN resp.body :
              CostModel(resp.body[k].revenue, resp.body[k].profit,
                        resp.body[k].margin_percent)
    /\ (resp.op = "get_client_details" /\ resp.status = 200) =>
          CostModel(resp.body.summary.total_revenue, resp.body.summary.profit,
                    resp.body.summary.margin_percent)

\* C3 witness: a profitability answer with a record of positive revenue and
\* margin 75 and a record of revenue 0 and margin 0
C3_Witness ==
    /\ ProfitabilityAnswered
    /\ \E k \in DOMAIN resp.body :
          resp.body[k].revenue > 0 /\ resp.body[k].margin_percent = 75
    /\ \E k \in DOMAIN resp.body :
          resp.body[k].revenue = 0 /\ resp.body[k].margin_percent = 0

\* the position of a record's client in the caller's client list
PosOf(cid) == CHOOSE i \in DOMAIN clients : clients[i].id = cid

\* C7: the profitability list is non-increasing in revenue, and records of
\* equal revenue keep the order of their clients in the client list.
C7_SortedStable ==
    ProfitabilityAnswered =>
        \A i, j \in DOMAIN resp.body :
            i < j =>
                /\ resp.body[i].revenue >= resp.body[j].revenue
                /\ resp.body[i].revenue = resp.body[j].revenue
                     => PosOf(resp.body[i].client_id) < PosOf(resp.body[j].client_id)

\* C7 witness: two records of equal positive revenue, the first being the
\* client listed first
C7_Witness ==
    /\ ProfitabilityAnswered
    /\ Len(resp.body) = 2
    /\ resp.body[1].revenue = resp.body[2].revenue
    /\ resp.body[1].revenue > 0
    /\ resp.body[1].client_id = "c2"
    /\ clients[1].id = "c2"

HoursWorkedOrZeroAt ==
    [i \in DOMAIN projects |->
        IF IsNum(projects[i].hours_worked) THEN projects[i].hours_worked.v ELSE 0]

\* a value float(x or 0) accepts: a number or null
Floatable(x) == x.t \in {"num", "none"}

\* a client without invoices whose name is a string and whose projects have
\* numeric hours
IdleClient(u, i) ==
    /\ InvOf(u, clients[i].id) = {}
    /\ clients[i].name.t = "str"
    /\ \A p \in ProjOf(u, clients[i].id) : Floatable(projects[p].hours_worked)

RfmAnswered == resp.op = "get_rfm_analysis" /\ resp.status = 200

ClaimedMalformed(u, i) ==
    \/ clients[i].name.t # "str"
    \/ \E k \in InvOf(u, clients[i].id) :
          \/ Truthy(invoices[k].invoice_date) /\ ~IsoParses(invoices[k].invoice_date)
          \/ ~Floatable(invoices[k].amount)
          \/ ~Floatable(invoices[k].hours_billed)
    \/ \E p \in ProjOf(u, clients[i].id) : ~Floatable(projects[p].hours_worked)

Unreadable(u, i) ==
    \/ clients[i].name.t # "str"
    \/ \E k \in InvOf(u, clients[i].id) :
          /\ invoices[k].status \in {"paid", "unpaid", "overdue"}
          /\ ~Floatable(invoices[k].amount)
    \/ \E p \in ProjOf(u, clients[i].id) : ~Floatable(projects[p].hours_worked)

ParsedDays(u, cid) ==
    {invoices[k].invoice_date.v :
        k \in {n \in InvOf(u, cid) : IsoParses(invoices[n].invoice_date)}}

\* C10: in each profitability record last_invoice_date is the latest of the
\* client's invoice dates that parse, and absent only if none parses (stated
\* for clients whose parseable dates all carry an offset).
C10_LastInvoiceDate ==
    ProfitabilityAnswered =>
        \A k \in DOMAIN resp.body :
            LET days == ParsedDays(resp.user, resp.body[k].client_id)
            IN (\A n \in InvOf(resp.user, resp.body[k].client_id) :
                    invoices[n].invoice_date.t # "isonaive")
               => IF days = {} THEN resp.body[k].last_invoice_date = NoneV
                  ELSE /\ resp.body[k].last_invoice_date.t # "none"
                       /\ resp.body[k].last_invoice_date.v \in days
                       /\ \A d \in days : d <= resp.body[k].last_invoice_date.v


\* the largest element of a non-empty set of days
MaxOf(S) == CHOOSE d \in S : \A e \in S : e <= d

\* the days of the dates of a client's invoices (invoice_date, or paid_date
\* when invoice_date is absent) that parse
RecencyDates(u, cid) ==
    {DateOf(invoices[k]).v :
        k \in {n \in InvOf(u, cid) : IsoParses(DateOf(invoices[n]))}}

\* C11: get_rfm_analysis answers (stated for amounts that are numbers or
\* null), and every client with an invoice has a row whose recency_days is
\* now minus the latest of its invoices' parseable dates; with no parseable
\* date it is 9999 and no row has a lower R.
C11_Recency ==
    (resp.op = "get_rfm_analysis"
        /\ \A k \in Mine(resp.user) : Floatable(invoices[k].amount)) =>
        /\ resp.status = 200
        /\ \A i \in ClientsOf(resp.user) :
              InvOf(resp.user, clients[i].id) # {} =>
                  \E k \in RowsFor(clients[i].id) :
                      LET days == RecencyDates(resp.user, clients[i].id)
                      IN IF days = {}
                         THEN /\ resp.body[k].recency_days = NoRecency
                              /\ \A j \in DOMAIN resp.body :
                                    resp.body[k].R <= resp.body[j].R
                         ELSE resp.body[k].recency_days = now - MaxOf(days)

\* ----------------------------------------------------------------------
\* The RFM scoring slice: a population of clients c1..cn in list order, the
\* client at position i holding invoices at level p[i] of one metric:
\*   frequency  p[i] invoices of amount 100, their statuses cycling
\*   monetary   one invoice of amount 100 * p[i]
\*   recency    one invoice dated 10 * p[i] days ago (invoice_date, or
\*              paid_date alone at even levels), undated at level 0
\*   mixed      one invoice of amount 100 * p[i] dated 10 * p[i] days ago, with
\*              an unparseable date at level 0
\* and optionally two invoices that belong to no client of the caller.
\* ----------------------------------------------------------------------
MaxPopulation == 4
MaxLevel == 4

ScoreClientIds == <<"c1", "c2", "c3", "c4", "c5", "c6">>
ScoreKinds == {"frequency", "monetary", "recency", "mixed"}
StatusCycle == <<"paid", "unpaid", "overdue", "draft">>
StatusAt(k) == StatusCycle[((k - 1) % Len(StatusCycle)) + 1]

ScoreInvoicesOf(kind, i, l) ==
    LET c == ScoreClientIds[i]
        day == Iso(Today - 10 * l)
    IN CASE kind = "frequency" ->
              [k \in 1..l |->
                  InvoiceDoc("u1", c, StatusAt(k), Num(100), Num(2), Iso(50), Iso(80), NoneV)]
         [] kind = "monetary" ->
              <<InvoiceDoc("u1", c, StatusAt(l + 1), Num(100 * l), Num(2),
                           Iso(50), Iso(80), NoneV)>>
         [] kind = "recency" ->
              <<InvoiceDoc("u1", c, "paid", Num(100), Num(2),
                           IF l % 2 = 0 THEN NoneV ELSE day, Iso(80),
                           IF l % 2 = 0 /\ l > 0 THEN day ELSE NoneV)>>
         [] kind = "mixed" ->
              <<InvoiceDoc("u1", c, "paid", Num(100 * l), Num(2),
                           IF l = 0 THEN BadStr ELSE day, Iso(80), NoneV)>>

\* the invoices of the clients at positions i..Len(p), in client order
RECURSIVE ScoreInvoices(_, _, _)
ScoreInvoices(kind, p, i) ==
    IF i > Len(p) THEN <<>>
    ELSE ScoreInvoicesOf(kind, i, p[i]) \o ScoreInvoices(kind, p, i + 1)

\* an invoice of a client that is gone, and one without client_id
Orphans ==
    <<InvoiceDoc("u1", "gone", "paid", BadStr, Num(2), IsoNaive(50), Iso(80), NoneV),
      InvoiceDoc("u1", "", "unpaid", Num(300), Num(2), Iso(50), Iso(80), NoneV)>>

InitScore ==
    /\ \E n \in 0..MaxPopulation, kind \in ScoreKinds, orphaned \in BOOLEAN :
          \E p \in [1..n -> 0..MaxLevel] :
              /\ clients = [i \in 1..n |-> ClientDoc("u1", ScoreClientIds[i], ClientName)]
              /\ invoices = (IF orphaned THEN Orphans ELSE <<>>)
                                \o ScoreInvoices(kind, p, 1)
    /\ projects = <<>>
    /\ now = Today
    /\ resp = NoResp
    /\ call = NoCall
    /\ users = StoredUsers
    /\ pending = NoPending

\* one call on the snapshot, by the owner of the documents
NextScore ==
    /\ resp = NoResp
    /\ \E u \in {"u1"} :
        \/ get_rfm_analysis(u)
        \/ get_client_profitability(u)

SpecScore == InitScore /\ [][NextScore]_vars

\* ----------------------------------------------------------------------
\* Properties of get_rfm_analysis
\* ----------------------------------------------------------------------
\* C12: in every RFM row frequency is the number of the client's invoices and
\* monetary the sum of their amounts, whatever their status; monetary exceeds
\* the revenue of the client's profitability record by the amounts of its
\* invoices that are not paid.
C12_FrequencyMonetary ==
    RfmAnswered =>
        \A k \in DOMAIN resp.body :
            LET cid == resp.body[k].client_id
                own == InvOf(resp.user, cid)
                client == clients[PosOf(cid)]
            IN /\ resp.body[k].frequency = Cardinality(own)
               /\ resp.body[k].monetary = SetSum(own, AmountOrZeroAt)
               /\ ~ClientRaises(resp.user, client)
               /\ resp.body[k].monetary - ClientRecord(resp.user, client).revenue
                      = SetSum({n \in own : invoices[n].status # "paid"}, AmountOrZeroAt)

\* C12 witness: a row over four invoices of four statuses, only one of them
\* paid
C12_Witness ==
    /\ RfmAnswered
    /\ \E k \in DOMAIN resp.body :
          /\ resp.body[k].frequency = 4
          /\ resp.body[k].monetary = 400
          /\ {invoices[n].status : n \in InvOf(resp.user, resp.body[k].client_id)}
                 = {"paid", "unpaid", "overdue", "draft"}
          /\ ClientRecord(resp.user, clients[PosOf(resp.body[k].client_id)]).revenue = 100

\* C13: in every RFM row R, F and M lie in 1..5 and rfm_score is their sum,
\* within 3..15, whatever the size of the population and its ties.
C13_ScoreRange ==
    RfmAnswered =>
        \A k \in DOMAIN resp.body :
            /\ resp.body[k].R \in 1..5
            /\ resp.body[k].F \in 1..5
            /\ resp.body[k].M \in 1..5
            /\ resp.body[k].rfm_score =
                   resp.body[k].R + resp.body[k].F + resp.body[k].M
            /\ resp.body[k].rfm_score \in 3..15

\* C13 witness: a population of three or more rows, two of them tied on
\* frequency, with both ends of the F scale
C13_Witness ==
    /\ RfmAnswered
    /\ Len(resp.body) >= 3
    /\ \E i, j \in DOMAIN resp.body :
          i # j /\ resp.body[i].frequency = resp.body[j].frequency
    /\ \E k \in DOMAIN resp.body : resp.body[k].F = 5
    /\ \E k \in DOMAIN resp.body : resp.body[k].F = 1

\* the rows are non-increasing in (rfm_score, monetary), lexicographically
ScoreOrdered(a, b) ==
    \/ a.rfm_score > b.rfm_score
    \/ a.rfm_score = b.rfm_score /\ a.monetary >= b.monetary

\* C15: the RFM list is ordered by rfm_score descending and then by monetary
\* descending, and holds exactly one row per client that has an invoice.
C15_OrderedRows ==
    RfmAnswered =>
        /\ \A k \in DOMAIN resp.body :
              k < Len(resp.body) => ScoreOrdered(resp.body[k], resp.body[k + 1])
        /\ \A i \in ClientsOf(resp.user) :
              Cardinality(RowsFor(clients[i].id)) =
                  IF InvOf(resp.user, clients[i].id) # {} THEN 1 ELSE 0
        /\ Len(resp.body) =
               Cardinality({i \in ClientsOf(resp.user) :
                               InvOf(resp.user, clients[i].id) # {}})

\* C15 witness: two rows of equal rfm_score, the one of larger monetary first
\* although its client comes later in the client list
C15_Witness ==
    /\ RfmAnswered
    /\ \E k \in DOMAIN resp.body :
          /\ k < Len(resp.body)
          /\ resp.body[k].rfm_score = resp.body[k + 1].rfm_score
          /\ resp.body[k].monetary > resp.body[k + 1].monetary
          /\ PosOf(resp.body[k].client_id) > PosOf(resp.body[k + 1].client_id)

\* the values of one metric over the rows are pairwise distinct
Distinct(vals) == \A i, j \in DOMAIN vals : i # j => vals[i] # vals[j]
RecencyOf == [k \in DOMAIN resp.body |-> resp.body[k].recency_days]
FrequencyOf == [k \in DOMAIN resp.body |-> resp.body[k].frequency]
MonetaryOf == [k \in DOMAIN resp.body |-> resp.body[k].monetary]
Smallest(vals, k) == \A j \in DOMAIN vals : vals[k] <= vals[j]
Largest(vals, k) == \A j \in DOMAIN vals : vals[k] >= vals[j]

\* C16: in a population of two or more rows with pairwise distinct values of
\* a metric, the smallest frequency (monetary) scores 1 and the largest 5,
\* and the smallest recency_days scores R = 5 and the largest R = 1.
C16_Extremes ==
    (RfmAnswered /\ Len(resp.body) >= 2) =>
        \A k \in DOMAIN resp.body :
            /\ Distinct(FrequencyOf) =>
                  /\ Smallest(FrequencyOf, k) => resp.body[k].F = 1
                  /\ Largest(FrequencyOf, k) => resp.body[k].F = 5
            /\ Distinct(MonetaryOf) =>
                  /\ Smallest(MonetaryOf, k) => resp.body[k].M = 1
                  /\ Largest(MonetaryOf, k) => resp.body[k].M = 5
            /\ Distinct(RecencyOf) =>
                  /\ Smallest(RecencyOf, k) => resp.body[k].R = 5
                  /\ Largest(RecencyOf, k) => resp.body[k].R = 1

\* C16 witness: four rows with pairwise distinct monetary and recency values,
\* the largest monetary scoring M = 5 and the largest recency_days R = 1
C16_Witness ==
    /\ RfmAnswered
    /\ Len(resp.body) >= 4
    /\ Distinct(MonetaryOf)
    /\ Distinct(RecencyOf)
    /\ \E k \in DOMAIN resp.body :
          Largest(MonetaryOf, k) /\ resp.body[k].M = 5
    /\ \E k \in DOMAIN resp.body :
          Largest(RecencyOf, k) /\ resp.body[k].R = 1 /\ resp.body[k].recency_days = NoRecency
    /\ \E k \in DOMAIN resp.body :
          Smallest(RecencyOf, k) /\ resp.body[k].R = 5 /\ resp.body[k].M > 1

\* ----------------------------------------------------------------------
\* The segment logic of get_rfm_analysis as a step of its own: the scores of
\* one row are drawn from 1..5 and the row gets its rfm_score and segment.
\* ----------------------------------------------------------------------
Scores == 1..5

segment_row(R, F, M) ==
    /\ resp' = Ok200("segment", "", <<[R |-> R, F |-> F, M |-> M,
                                       rfm_score |-> R + F + M,
                                       segment |-> Segment(R, F, M)]>>)
    /\ UNCHANGED <<users, pending, clients, projects, invoices, now, call>>

InitSegment ==
    /\ clients = <<>>
    /\ projects = <<>>
    /\ invoices = <<>>
    /\ now = Today
    /\ resp = NoResp
    /\ call = NoCall
    /\ users = StoredUsers
    /\ pending = NoPending

NextSegment == resp = NoResp /\ \E R, F, M \in Scores : segment_row(R, F, M)

SpecSegment == InitSegment /\ [][NextSegment]_vars

\* the segmentation rules in their order, the last one matching everything
RuleNames == <<"Champion", "Loyal", "Potential", "At Risk", "Lost", "Other">>
RuleMatches(n, R, F, M) ==
    CASE n = 1 -> R >= 4 /\ F >= 4 /\ M >= 4
      [] n = 2 -> F >= 4 /\ M >= 4
      [] n = 3 -> R >= 4 /\ F >= 2
      [] n = 4 -> R <= 2 /\ (F >= 3 \/ M >= 3)
      [] n = 5 -> R <= 2 /\ F <= 2 /\ M <= 2
      [] OTHER -> TRUE
FirstRule(R, F, M) ==
    CHOOSE n \in DOMAIN RuleNames :
        /\ RuleMatches(n, R, F, M)
        /\ \A k \in 1..(n - 1) : ~RuleMatches(k, R, F, M)

\* C14: the segment of a row, scored alone or within an RFM answer, is the
\* name of the first rule, in the order Champion, Loyal, Potential, At Risk,
\* Lost, Other, that its (R, F, M) matches.
C14_Segment ==
    (resp.op \in {"segment", "get_rfm_analysis"} /\ resp.status = 200) =>
        \A k \in DOMAIN resp.body :
            resp.body[k].segment =
                RuleNames[FirstRule(resp.body[k].R, resp.body[k].F, resp.body[k].M)]

\* C14 witness: a triple that matches both the Loyal and the At Risk rule is
\* Loyal
C14_Witness ==
    /\ resp.op = "segment"
    /\ \E k \in DOMAIN resp.body :
          /\ resp.body[k].R = 1 /\ resp.body[k].F = 4 /\ resp.body[k].M = 4
          /\ RuleMatches(2, 1, 4, 4) /\ RuleMatches(4, 1, 4, 4)
          /\ resp.body[k].segment = "Loyal"

\* an invoice the RFM loop can use: an amount that is a number or null, and a
\* date that is absent, unparseable or carries an offset
RfmReadable(k) ==
    /\ Floatable(invoices[k].amount)
    /\ DateOf(invoices[k]).t # "isonaive"

\* C18: get_rfm_analysis never fails on a malformed record: it answers, and
\* every client whose own invoices are all usable has its row.
C18_RfmRecovers ==
    resp.op = "get_rfm_analysis" =>
        /\ resp.status = 200
        /\ \A i \in ClientsOf(resp.user) :
              (/\ InvOf(resp.user, clients[i].id) # {}
               /\ \A k \in InvOf(resp.user, clients[i].id) : RfmReadable(k))
                  => RowsFor(clients[i].id) # {}

\* the caller's invoices that belong to one of the caller's clients
Owned(u) ==
    {k \in Mine(u) : \E i \in ClientsOf(u) : clients[i].id = invoices[k].client_id}

\* C19: an invoice whose client_id matches no client of the caller, or is
\* empty, makes neither profitability nor RFM fail and enters no record: every
\* row is a client's, built from that client's own invoices, and the R, F, M
\* scores are those of the rows' own values.
C19_Orphans ==
    /\ resp.op = "get_client_profitability" => resp.status = 200
    /\ (resp.op = "get_rfm_analysis" /\ \A k \in Owned(resp.user) : RfmReadable(k))
          => resp.status = 200
    /\ (ProfitabilityAnswered \/ RfmAnswered) =>
          \A k \in DOMAIN resp.body :
              \E i \in ClientsOf(resp.user) : clients[i].id = resp.body[k].client_id
    /\ ProfitabilityAnswered =>
          \A k \in DOMAIN resp.body :
              LET own == InvOf(resp.user, resp.body[k].client_id)
              IN /\ resp.body[k].revenue =
                        SetSum({n \in own : invoices[n].status = "paid"}, AmountOrZeroAt)
                 /\ resp.body[k].outstanding_ar =
                        SetSum({n \in own : invoices[n].status \in {"unpaid", "overdue"}},
                               AmountOrZeroAt)
    /\ RfmAnswered =>
          /\ Len(resp.body) =
                 Cardinality({i \in ClientsOf(resp.user) :
                                 InvOf(resp.user, clients[i].id) # {}})
          /\ \A k \in DOMAIN resp.body :
                LET own == InvOf(resp.user, resp.body[k].client_id)
                IN /\ resp.body[k].frequency = Cardinality(own)
                   /\ resp.body[k].monetary = SetSum(own, AmountOrZeroAt)
                   /\ resp.body[k].R =
                          quintile(SortAsc(RecencyOf), resp.body[k].recency_days, TRUE)
                   /\ resp.body[k].F =
                          quintile(SortAsc(FrequencyOf), resp.body[k].frequency, FALSE)
                   /\ resp.body[k].M =
                          quintile(SortAsc(MonetaryOf), resp.body[k].monetary, FALSE)

\* C19 witness: RFM answers with two or more rows over a store that holds an
\* invoice of a client that is gone, with an amount that is no number, and an
\* invoice without client_id
C19_Witness ==
    /\ RfmAnswered
    /\ Len(resp.body) >= 2
    /\ \E k \in Mine(resp.user) \ Owned(resp.user) :
          invoices[k].client_id # "" /\ ~Floatable(invoices[k].amount)
    /\ \E k \in Mine(resp.user) \ Owned(resp.user) :
          invoices[k].client_id = "" /\ invoices[k].amount.v > 0

\* ----------------------------------------------------------------------
\* The analytics operations called again and again, by either user, on one
\* store and at one instant.
\* ----------------------------------------------------------------------
RepeatInvoices ==
    {InvoiceDoc("u1", "c1", "unpaid", Num(100), Num(2), Iso(50), Iso(Today - 30), NoneV),
     InvoiceDoc("u1", "c1", "paid", Num(200), Num(2), Iso(60), Iso(80), Iso(90)),
     InvoiceDoc("u1", "c2", "paid", Num(100), Num(2), Iso(40), Iso(80), NoneV),
     InvoiceDoc("u2", "c1", "unpaid", Num(100), Num(2), Iso(50), Iso(Today - 40), NoneV)}

InitRepeat ==
    /\ clients = <<ClientDoc("u1", "c1", ClientName), ClientDoc("u1", "c2", ClientName)>>
    /\ projects \in SeqUpTo({ProjectDoc("u1", "c1", Num(2))}, MaxProjects)
    /\ invoices \in SeqUpTo(RepeatInvoices, MaxInvoices)
    /\ now = Today
    /\ resp = NoResp
    /\ call = NoCall
    /\ users = StoredUsers
    /\ pending = NoPending

NextRepeat ==
    \E u \in UserIds :
        \/ get_kpis(u)
        \/ get_ar_aging(u)
        \/ get_client_profitability(u)
        \/ get_rfm_analysis(u)

SpecRepeat == InitRepeat /\ [][NextRepeat]_vars

AnalyticsOps ==
    {"get_kpis", "get_ar_aging", "get_client_profitability", "get_rfm_analysis"}

\* C17: a step that delivers the answer of an analytics operation leaves the
\* clients, projects and invoices as they were, and when it follows an answer
\* of the same operation to the same user at the same instant, the answer is
\* the same.
C17_ReadOnly ==
    [][resp'.op \in AnalyticsOps =>
          /\ UNCHANGED <<users, pending, clients, projects, invoices>>
          /\ (resp'.op = resp.op /\ resp'.user = resp.user /\ now' = now)
                => resp' = resp]_vars

\* C17 witness: the aging answer has counted an unpaid invoice that is past
\* due, and the invoice is still stored as unpaid
C17_Witness ==
    /\ resp.op = "get_ar_aging"
    /\ resp.body["0-30"] > 0
    /\ \E i \in Mine(resp.user) :
          /\ invoices[i].status = "unpaid"
          /\ now - invoices[i].due_date.v > 0

\* ----------------------------------------------------------------------
\* Invoice writes (create_invoice, update_invoice, delete_invoice)
\*
\* An invoice written through the API carries an id.  project_id and
\* created_at are left out: no operation modelled here reads them.
\* ----------------------------------------------------------------------
InvoiceIds == <<"i1", "i2", "i3", "i4">>

\* str(uuid.uuid4()): an id no stored invoice has
FreshInvoiceId ==
    LET free == {k \in DOMAIN InvoiceIds :
                    \A i \in DOMAIN invoices : invoices[i].id # InvoiceIds[k]}
    IN InvoiceIds[CHOOSE k \in free : \A j \in free : k <= j]

\* the JSON body of a create or update request
InvoiceData(c, am, st) ==
    [client_id |-> c, amount |-> am, hours_billed |-> Num(2),
     invoice_date |-> Iso(50), due_date |-> Iso(80), paid_date |-> NoneV,
     status |-> st]

\* float(x): None is a TypeError and a non-numeric string a ValueError
FloatRaises(x) == ~IsNum(x)

FindOneClient(u, cid) == SelectSeq(clients, LAMBDA c : c.id = cid /\ c.user_id = u)

\* the positions matched by {"id": invoice_id, "user_id": u}
MatchInvoice(u, id) ==
    {i \in DOMAIN invoices : invoices[i].id = id /\ invoices[i].user_id = u}

FirstOf(S) == CHOOSE i \in S : \A j \in S : i <= j

\* The profitability bodies of the stores that writes have replaced since the
\* suspended get_client_profitability request began (history kept for the
\* properties): a write adds the body of the store it finds.
Observe ==
    IF call.phase \in {"invoices", "projects"}
    THEN call' = [call EXCEPT !.snaps = @ \cup {ProfitabilityBody(call.user)}]
    ELSE UNCHANGED call

\* POST /invoices: the HTTPException(400) of an unknown client and the errors
\* of float() all end in the handler's `except Exception`, i.e. in a 500
create_invoice(u, data) ==
    /\ Len(invoices) < MaxInvoices
    /\ IF \/ FindOneClient(u, data.client_id) = <<>>
          \/ FloatRaises(data.amount)
          \/ FloatRaises(data.hours_billed)
       THEN /\ resp' = Err500("create_invoice", u)
            /\ UNCHANGED <<users, pending, clients, projects, invoices, now, call>>
       ELSE LET invoice == [id |-> FreshInvoiceId, user_id |-> u,
                            client_id |-> data.client_id,
                            amount |-> data.amount,
                            hours_billed |-> data.hours_billed,
                            invoice_date |-> data.invoice_date,
                            due_date |-> data.due_date,
                            paid_date |-> data.paid_date,
                            status |-> data.status]
            IN /\ invoices' = Append(invoices, invoice)
               /\ resp' = Ok200("create_invoice", u, invoice)
               /\ UNCHANGED <<users, pending, clients, projects, now>>
               /\ Observe

\* PUT /invoices/{invoice_id}: every field is overwritten from the body, the
\* client_id is not checked; the HTTPException(404) ends in a 500
update_invoice(u, id, data) ==
    IF \/ FloatRaises(data.amount)
       \/ FloatRaises(data.hours_billed)
       \/ MatchInvoice(u, id) = {}
    THEN /\ resp' = Err500("update_invoice", u)
         /\ UNCHANGED <<users, pending, clients, projects, invoices, now, call>>
    ELSE LET k == FirstOf(MatchInvoice(u, id))
             updated == [invoices[k] EXCEPT
                            !.client_id = data.client_id,
                            !.amount = data.amount,
                            !.hours_billed = data.hours_billed,
                            !.invoice_date = data.invoice_date,
                            !.due_date = data.due_date,
                            !.paid_date = data.paid_date,
                            !.status = data.status]
         IN /\ invoices' = [invoices EXCEPT ![k] = updated]
            /\ resp' = Ok200("update_invoice", u, ParseFromMongo(updated))
            /\ UNCHANGED <<users, pending, clients, projects, now>>
            /\ Observe

\* DELETE /invoices/{invoice_id}; the HTTPException(404) ends in a 500
delete_invoice(u, id) ==
    IF MatchInvoice(u, id) = {}
    THEN /\ resp' = Err500("delete_invoice", u)
         /\ UNCHANGED <<users, pending, clients, projects, invoices, now, call>>
    ELSE LET k == FirstOf(MatchInvoice(u, id))
         IN /\ invoices' = SubSeq(invoices, 1, k - 1)
                               \o SubSeq(invoices, k + 1, Len(invoices))
            /\ resp' = Ok200("delete_invoice", u, <<>>)
            /\ UNCHANGED <<users, pending, clients, projects, now>>
            /\ Observe

\* ----------------------------------------------------------------------
\* get_client_profitability await by await: the clients are read once, then
\* for each client its invoices and its projects, each read a database call
\* at which other requests run.
\* ----------------------------------------------------------------------
\* clients = await db.clients.find({"user_id": u}).to_list()
profitability_find_clients(u) ==
    /\ call.phase \in {"idle", "done"}
    /\ call' = [phase |-> "invoices", user |-> u, todo |-> FindUser(clients, u),
                invs |-> <<>>, result |-> <<>>,
                snaps |-> {}]
    /\ UNCHANGED <<users, pending, clients, projects, invoices, now, resp>>

\* invoices = await db.invoices.find({"client_id": ..., "user_id": u}).to_list()
profitability_find_invoices ==
    /\ call.phase = "invoices"
    /\ call.todo # <<>>
    /\ call' = [call EXCEPT
                   !.invs = FindUserClient(invoices, call.user, Head(call.todo).id),
                   !.phase = "projects"]
    /\ UNCHANGED <<users, pending, clients, projects, invoices, now, resp>>

\* projects = await db.projects.find(...).to_list(), and the rest of the loop
\* body: the record is appended unless the try block raises
profitability_find_projects ==
    /\ call.phase = "projects"
    /\ LET client == Head(call.todo)
           projs == FindUserClient(projects, call.user, client.id)
       IN call' = [call EXCEPT
                      !.result = IF ClientRaisesOf(client, call.invs, projs) THEN @
                                 ELSE Append(@, ClientRecordOf(client, call.invs, projs)),
                      !.todo = Tail(@),
                      !.invs = <<>>,
                      !.phase = "invoices"]
    /\ UNCHANGED <<users, pending, clients, projects, invoices, now, resp>>

\* result.sort(...); return result
profitability_return ==
    /\ call.phase = "invoices"
    /\ call.todo = <<>>
    /\ resp' = Ok200("get_client_profitability", call.user, SortByRevenue(call.result))
    /\ call' = [phase |-> "done", user |-> call.user, snaps |-> call.snaps]
    /\ UNCHANGED <<users, pending, clients, projects, invoices, now>>

\* bodies naming a client, no client, and one whose amount is null
RequestBodies ==
    {InvoiceData(c, Num(100), "paid") : c \in ClientIds \cup {""}}
        \cup {InvoiceData("c1", NoneV, "paid")}

InitConcurrent ==
    /\ clients = <<ClientDoc("u1", "c1", ClientName), ClientDoc("u1", "c2", ClientName)>>
    /\ projects = <<ProjectDoc("u1", "c1", Num(2))>>
    /\ invoices = <<>>
    /\ now = Today
    /\ resp = NoResp
    /\ call = NoCall
    /\ users = StoredUsers
    /\ pending = NoPending

NextConcurrent ==
    \E u \in {"u1"} :
        \/ profitability_find_clients(u)
        \/ profitability_find_invoices
        \/ profitability_find_projects
        \/ profitability_return
        \/ \E data \in RequestBodies : create_invoice(u, data)
        \/ \E k \in 1..MaxInvoices, data \in RequestBodies :
              update_invoice(u, InvoiceIds[k], data)
        \/ \E k \in 1..MaxInvoices : delete_invoice(u, InvoiceIds[k])

SpecConcurrent == InitConcurrent /\ [][NextConcurrent]_vars

\* C20: the list get_client_profitability returns is the profitability of
\* the store as it stood at one instant between the start and the end of the
\* call: a store that a write replaced meanwhile, or the store at the return.
C20_Snapshot ==
    (call.phase = "done" /\ resp.op = "get_client_profitability") =>
        resp.body \in call.snaps \cup {ProfitabilityBody(call.user)}

\* ----------------------------------------------------------------------
\* The quintile reference and the order of the scores (SpecScore)
\* ----------------------------------------------------------------------
\* the index, from 0, of the first element >= v of the ascending population:
\* the number of its values below v, and the last index if there is none
RefPos(vals, v) ==
    LET below == Cardinality({j \in DOMAIN vals : vals[j] < v})
    IN IF \E j \in DOMAIN vals : vals[j] >= v THEN below ELSE Len(vals) - 1

\* floor(pos / max(n - 1, 1) * 5) + 1: the floor of a quotient x / d is the
\* q with q * d <= x < (q + 1) * d
RefRaw(vals, v) ==
    LET d == IF Len(vals) - 1 > 1 THEN Len(vals) - 1 ELSE 1
        x == RefPos(vals, v) * 5
        q == CHOOSE k \in 0..x : k * d <= x /\ x < (k + 1) * d
    IN q + 1

RefScore(vals, v) ==
    LET raw == RefRaw(vals, v)
    IN IF raw < 1 THEN 1 ELSE IF raw > 5 THEN 5 ELSE raw

\* C24: every row of an answered RFM call carries the reference scores of
\* its values within the population of the rows: F and M the clamped raw
\* score, R six minus it.
C24_Reference ==
    RfmAnswered =>
        \A k \in DOMAIN resp.body :
            /\ resp.body[k].F = RefScore(FrequencyOf, resp.body[k].frequency)
            /\ resp.body[k].M = RefScore(MonetaryOf, resp.body[k].monetary)
            /\ resp.body[k].R = 6 - RefScore(RecencyOf, resp.body[k].recency_days)

\* C24 witness: four rows, two of them tied on monetary, with a score
\* strictly inside the scale and the clamped top score
C24_Witness ==
    /\ RfmAnswered
    /\ Len(resp.body) = 4
    /\ \E i, j \in DOMAIN resp.body :
          i # j /\ resp.body[i].monetary = resp.body[j].monetary
    /\ \E k \in DOMAIN resp.body : resp.body[k].M \in 2..4
    /\ \E k \in DOMAIN resp.body : resp.body[k].M = 5 /\ RefRaw(MonetaryOf, resp.body[k].monetary) = 6

\* C30: within one answered RFM call the scores follow the order of the
\* values (F with frequency, M with monetary, R against recency_days), equal
\* values have equal scores, and a population that shares one value scores
\* as position 0: F = 1, M = 1, R = 5.
C30_OrderPreserving ==
    RfmAnswered =>
        /\ \A a, b \in DOMAIN resp.body :
              /\ resp.body[a].frequency <= resp.body[b].frequency
                    => resp.body[a].F <= resp.body[b].F
              /\ resp.body[a].monetary <= resp.body[b].monetary
                    => resp.body[a].M <= resp.body[b].M
              /\ resp.body[a].recency_days <= resp.body[b].recency_days
                    => resp.body[a].R >= resp.body[b].R
              /\ resp.body[a].frequency = resp.body[b].frequency
                    => resp.body[a].F = resp.body[b].F
              /\ resp.body[a].monetary = resp.body[b].monetary
                    => resp.body[a].M = resp.body[b].M
              /\ resp.body[a].recency_days = resp.body[b].recency_days
                    => resp.body[a].R = resp.body[b].R
        /\ \A k \in DOMAIN resp.body :
              /\ (\A j \in DOMAIN resp.body :
                     resp.body[j].frequency = resp.body[k].frequency)
                    => resp.body[k].F = 1
              /\ (\A j \in DOMAIN resp.body :
                     resp.body[j].monetary = resp.body[k].monetary)
                    => resp.body[k].M = 1
              /\ (\A j \in DOMAIN resp.body :
                     resp.body[j].recency_days = resp.body[k].recency_days)
                    => resp.body[k].R = 5

\* C30 witness: three or more rows that share one frequency (all F = 1) and
\* differ in monetary, with M rising from 1 to 5
C30_Witness ==
    /\ RfmAnswered
    /\ Len(resp.body) >= 3
    /\ \A i, j \in DOMAIN resp.body :
          resp.body[i].frequency = resp.body[j].frequency
    /\ \A k \in DOMAIN resp.body : resp.body[k].F = 1
    /\ \E i, j \in DOMAIN resp.body :
          /\ resp.body[i].monetary < resp.body[j].monetary
          /\ resp.body[i].M = 1
          /\ resp.body[j].M = 5

\* ----------------------------------------------------------------------
\* The other write endpoints: mark_invoice_paid, the client and project
\* writes, the list endpoints and generate_sample_data.
\*
\* A project written through the API carries an id.  Of a client the name
\* and of a project the client_id and hours_worked are kept; the fields no
\* operation reads (tier, region, rates, descriptions, created_at) are left
\* out, so parse_from_mongo has nothing to convert in these documents.
\* ----------------------------------------------------------------------
RemoveAt(coll, k) == SubSeq(coll, 1, k - 1) \o SubSeq(coll, k + 1, Len(coll))

\* mutant: the status is set and the paid_date is left as it was
mark_invoice_paid_NoDate(u, id) ==
    IF MatchInvoice(u, id) = {}
    THEN /\ resp' = Err500("mark_invoice_paid", u)
         /\ UNCHANGED <<users, pending, clients, projects, invoices, now, call>>
    ELSE LET k == FirstOf(MatchInvoice(u, id))
         IN /\ invoices' = [invoices EXCEPT ![k].status = "paid"]
            /\ resp' = Ok200("mark_invoice_paid", u, <<>>)
            /\ UNCHANGED <<users, pending, clients, projects, now>>
            /\ Observe

\* PUT /invoices/{invoice_id}/mark-paid; the HTTPException(404) ends in a 500
mark_invoice_paid(u, id) ==
    IF MatchInvoice(u, id) = {}
    THEN /\ resp' = Err500("mark_invoice_paid", u)
         /\ UNCHANGED <<users, pending, clients, projects, invoices, now, call>>
    ELSE LET k == FirstOf(MatchInvoice(u, id))
         IN /\ invoices' = [invoices EXCEPT ![k].status = "paid",
                                            ![k].paid_date = Iso(now)]
            /\ resp' = Ok200("mark_invoice_paid", u, <<>>)
            /\ UNCHANGED <<users, pending, clients, projects, now>>
            /\ Observe

\* the positions matched by {"id": client_id, "user_id": u}
MatchClient(u, cid) ==
    {i \in DOMAIN clients : clients[i].id = cid /\ clients[i].user_id = u}

\* the JSON body of a client update
ClientData(name, rate) == [name |-> name, hourly_rate |-> rate]

\* PUT /clients/{client_id}; the HTTPException(404) ends in a 500
update_client(u, cid, data) ==
    IF FloatRaises(data.hourly_rate) \/ MatchClient(u, cid) = {}
    THEN /\ resp' = Err500("update_client", u)
         /\ UNCHANGED <<users, pending, clients, projects, invoices, now, call>>
    ELSE LET k == FirstOf(MatchClient(u, cid))
             updated == [clients[k] EXCEPT !.name = data.name]
         IN /\ clients' = [clients EXCEPT ![k] = updated]
            /\ resp' = Ok200("update_client", u, updated)
            /\ UNCHANGED <<users, pending, projects, invoices, now>>
            /\ Observe

\* mutant: the invoices of the deleted client are kept
delete_client_KeepInvoices(u, cid) ==
    IF MatchClient(u, cid) = {}
    THEN /\ resp' = Err500("delete_client", u)
         /\ UNCHANGED <<users, pending, clients, projects, invoices, now, call>>
    ELSE /\ clients' = RemoveAt(clients, FirstOf(MatchClient(u, cid)))
         /\ projects' = SelectSeq(projects,
                LAMBDA d : ~(d.client_id = cid /\ d.user_id = u))
         /\ resp' = Ok200("delete_client", u, <<>>)
         /\ UNCHANGED <<users, pending, invoices, now>>
         /\ Observe

\* DELETE /clients/{client_id}: delete_one on clients, then delete_many on
\* projects and on invoices; the HTTPException(404) ends in a 500
delete_client(u, cid) ==
    IF MatchClient(u, cid) = {}
    THEN /\ resp' = Err500("delete_client", u)
         /\ UNCHANGED <<users, pending, clients, projects, invoices, now, call>>
    ELSE /\ clients' = RemoveAt(clients, FirstOf(MatchClient(u, cid)))
         /\ projects' = SelectSeq(projects,
                LAMBDA d : ~(d.client_id = cid /\ d.user_id = u))
         /\ invoices' = SelectSeq(invoices,
                LAMBDA d : ~(d.client_id = cid /\ d.user_id = u))
         /\ resp' = Ok200("delete_client", u, <<>>)
         /\ UNCHANGED <<users, pending, now>>
         /\ Observe

ProjectIds == <<"p1", "p2", "p3">>

\* str(uuid.uuid4()): an id no stored project has
FreshProjectId ==
    LET free == {k \in DOMAIN ProjectIds :
                    \A i \in DOMAIN projects : projects[i].id # ProjectIds[k]}
    IN ProjectIds[CHOOSE k \in free : \A j \in free : k <= j]

ProjectRec(id, u, c, hw) ==
    [id |-> id, user_id |-> u, client_id |-> c, hours_worked |-> hw]

\* the JSON body of a project create or update
ProjectData(c, hw) == [client_id |-> c, hours_worked |-> hw]

\* the positions matched by {"id": project_id, "user_id": u}
MatchProject(u, id) ==
    {i \in DOMAIN projects : projects[i].id = id /\ projects[i].user_id = u}

\* POST /projects: the client_id is stored as sent
create_project(u, data) ==
    /\ Len(projects) < MaxProjects
    /\ IF FloatRaises(data.hours_worked)
       THEN /\ resp' = Err500("create_project", u)
            /\ UNCHANGED <<users, pending, clients, projects, invoices, now, call>>
       ELSE LET project == ProjectRec(FreshProjectId, u, data.client_id,
                                      data.hours_worked)
            IN /\ projects' = Append(projects, project)
               /\ resp' = Ok200("create_project", u, project)
               /\ UNCHANGED <<users, pending, clients, invoices, now>>
               /\ Observe

\* mutant: the update matches the project_id alone
update_project_AnyOwner(u, id, data) ==
    LET match == {i \in DOMAIN projects : projects[i].id = id}
    IN IF FloatRaises(data.hours_worked) \/ match = {}
       THEN /\ resp' = Err500("update_project", u)
            /\ UNCHANGED <<users, pending, clients, projects, invoices, now, call>>
       ELSE LET k == FirstOf(match)
                updated == [projects[k] EXCEPT !.client_id = data.client_id,
                                               !.hours_worked = data.hours_worked]
            IN /\ projects' = [projects EXCEPT ![k] = updated]
               /\ resp' = Ok200("update_project", u, updated)
               /\ UNCHANGED <<users, pending, clients, invoices, now>>
               /\ Observe

\* PUT /projects/{project_id}: the update matches id and user_id, the
\* document returned is the first one with the id (find_one({"id": id}));
\* the HTTPException(404) ends in a 500
update_project(u, id, data) ==
    IF FloatRaises(data.hours_worked) \/ MatchProject(u, id) = {}
    THEN /\ resp' = Err500("update_project", u)
         /\ UNCHANGED <<users, pending, clients, projects, invoices, now, call>>
    ELSE LET k == FirstOf(MatchProject(u, id))
             updated == [projects[k] EXCEPT !.client_id = data.client_id,
                                            !.hours_worked = data.hours_worked]
             after == [projects EXCEPT ![k] = updated]
             found == FirstOf({i \in DOMAIN after : after[i].id = id})
         IN /\ projects' = after
            /\ resp' = Ok200("update_project", u, after[found])
            /\ UNCHANGED <<users, pending, clients, invoices, now>>
            /\ Observe

\* DELETE /projects/{project_id}; the HTTPException(404) ends in a 500
delete_project(u, id) ==
    IF MatchProject(u, id) = {}
    THEN /\ resp' = Err500("delete_project", u)
         /\ UNCHANGED <<users, pending, clients, projects, invoices, now, call>>
    ELSE /\ projects' = RemoveAt(projects, FirstOf(MatchProject(u, id)))
         /\ resp' = Ok200("delete_project", u, <<>>)
         /\ UNCHANGED <<users, pending, clients, invoices, now>>
         /\ Observe

\* GET /clients
get_clients(u) ==
    /\ resp' = Ok200("get_clients", u, FindUser(clients, u))
    /\ UNCHANGED <<users, pending, clients, projects, invoices, now, call>>

\* GET /invoices
get_invoices(u) ==
    /\ resp' = Ok200("get_invoices", u,
                     LET invs == FindUser(invoices, u)
                     IN [i \in DOMAIN invs |-> ParseFromMongo(invs[i])])
    /\ UNCHANGED <<users, pending, clients, projects, invoices, now, call>>

\* GET /projects
get_projects(u) ==
    /\ resp' = Ok200("get_projects", u, FindUser(projects, u))
    /\ UNCHANGED <<users, pending, clients, projects, invoices, now, call>>

SampleClientIds == <<"c1", "c2", "c3", "c4">>

\* str(uuid.uuid4()): an id no stored client has
FreshClientId ==
    LET free == {k \in DOMAIN SampleClientIds :
                    \A i \in DOMAIN clients : clients[i].id # SampleClientIds[k]}
    IN SampleClientIds[CHOOSE k \in free : \A j \in free : k <= j]

SampleStatuses == {"paid", "unpaid", "overdue"}

\* POST /data/generate-sample: the caller's clients, projects and invoices
\* are deleted and a random sample is inserted for the caller.  The sample is
\* cut down to one client with one project and one invoice.
generate_sample_data(u, st) ==
    LET cid == FreshClientId
        invoice == [id |-> FreshInvoiceId, user_id |-> u, client_id |-> cid,
                    amount |-> Num(100), hours_billed |-> Num(2),
                    invoice_date |-> Iso(50), due_date |-> Iso(80),
                    paid_date |-> IF st = "paid" THEN Iso(80) ELSE NoneV,
                    status |-> st]
    IN /\ clients' = Append(SelectSeq(clients, LAMBDA d : d.user_id # u),
                            ClientDoc(u, cid, ClientName))
       /\ projects' = Append(SelectSeq(projects, LAMBDA d : d.user_id # u),
                             ProjectRec(FreshProjectId, u, cid, Num(2)))
       /\ invoices' = Append(SelectSeq(invoices, LAMBDA d : d.user_id # u), invoice)
       /\ resp' = Ok200("generate_sample_data", u, <<>>)
       /\ UNCHANGED <<users, pending, now>>
       /\ Observe

\* ----------------------------------------------------------------------
\* The write slice: one request against a store of two tenants.  u1 owns
\* the clients c1 and c2, u2 owns c3; every stored invoice and project names
\* a client of its own user.
\* ----------------------------------------------------------------------
\* another client name
Renamed == [t |-> "str", v |-> 1]

CrudClients ==
    <<ClientDoc("u1", "c1", ClientName), ClientDoc("u1", "c2", ClientName),
      ClientDoc("u2", "c3", ClientName)>>

\* <<user, client, status>> of the stored invoices
CrudShapes ==
    {<<"u1", "c1", "unpaid">>, <<"u1", "c1", "draft">>, <<"u1", "c1", "paid">>,
     <<"u1", "c2", "overdue">>, <<"u2", "c3", "unpaid">>}

CrudInvoice(id, sh) ==
    [id |-> id, user_id |-> sh[1], client_id |-> sh[2],
     amount |-> Num(100), hours_billed |-> Num(2),
     invoice_date |-> Iso(50), due_date |-> Iso(80),
     paid_date |-> IF sh[3] = "paid" THEN Iso(90) ELSE NoneV,
     status |-> sh[3]]

CrudInvoices ==
    {[k \in DOMAIN s |-> CrudInvoice(InvoiceIds[k], s[k])] :
        s \in SeqUpTo(CrudShapes, MaxInvoices)}

CrudProjects ==
    {[k \in DOMAIN s |-> ProjectRec(ProjectIds[k], s[k][1], s[k][2], Num(2))] :
        s \in SeqUpTo({<<"u1", "c1">>, <<"u2", "c3">>}, MaxProjects)}

\* request bodies: a client of u1, a client of u2, no client
CrudClientRefs == {"c1", "c3", ""}
CrudInvoiceBodies == {InvoiceData(c, Num(100), "unpaid") : c \in CrudClientRefs}
CrudProjectBodies == {ProjectData(c, Num(3)) : c \in CrudClientRefs}
\* ids in requests: the stored ones and one that no record has
CrudInvoiceIds == {InvoiceIds[k] : k \in 1..(MaxInvoices + 1)}
CrudProjectIds == {ProjectIds[k] : k \in 1..(MaxProjects + 1)}
CrudClientIds == {"c1", "c2", "c3", "c4"}

InitCrud ==
    /\ users = StoredUsers
    /\ pending = NoPending
    /\ clients = CrudClients
    /\ projects \in CrudProjects
    /\ invoices \in CrudInvoices
    /\ now = Today
    /\ resp = NoResp
    /\ call = NoCall

NextCrud ==
    /\ resp = NoResp
    /\ \E u \in UserIds :
          \/ \E data \in CrudInvoiceBodies : create_invoice(u, data)
          \/ \E id \in CrudInvoiceIds, data \in CrudInvoiceBodies :
                update_invoice(u, id, data)
          \/ \E id \in CrudInvoiceIds : delete_invoice(u, id)
          \/ \E id \in CrudInvoiceIds : mark_invoice_paid(u, id)
          \/ \E cid \in CrudClientIds : update_client(u, cid, ClientData(Renamed, Num(1)))
          \/ \E cid \in CrudClientIds : delete_client(u, cid)
          \/ \E data \in CrudProjectBodies : create_project(u, data)
          \/ \E id \in CrudProjectIds, data \in CrudProjectBodies :
                update_project(u, id, data)
          \/ \E id \in CrudProjectIds : delete_project(u, id)
          \/ get_clients(u)
          \/ get_invoices(u)
          \/ get_projects(u)
          \/ \E st \in SampleStatuses : generate_sample_data(u, st)

SpecCrud == InitCrud /\ [][NextCrud]_vars

\* ----------------------------------------------------------------------
\* Properties of the write slice (SpecCrud)
\* ----------------------------------------------------------------------
\* what get_kpis and get_ar_aging would answer user u on the current store
RevenueOf(u) == KpiBody(u).total_revenue
ArOf(u) == KpiBody(u).outstanding_ar
AgedOf(u) == SetSum(BucketLabels, AgingBody(u))

\* the step is a mark_invoice_paid of user u that succeeded on the invoice
\* at position k: status and paid_date of that invoice are set and nothing
\* else in the store differs
MarkedPaid(u, k) ==
    /\ resp'.op = "mark_invoice_paid"
    /\ resp'.status = 200
    /\ resp'.user = u
    /\ invoices[k].user_id = u
    /\ Len(invoices') = Len(invoices)
    /\ invoices'[k].status = "paid"
    /\ Truthy(invoices'[k].paid_date)
    /\ invoices' = [invoices EXCEPT ![k].status = "paid",
                                    ![k].paid_date = invoices'[k].paid_date]
    /\ UNCHANGED <<users, clients, projects>>

\* the amount of the invoice enters total_revenue and leaves outstanding_ar
\* and the aging buckets
CountsAsPaid(u, k) ==
    /\ RevenueOf(u)' = RevenueOf(u)
           + (IF IsPaid(invoices[k]) THEN 0 ELSE invoices[k].amount.v)
    /\ ArOf(u)' = ArOf(u)
           - (IF IsOutstanding(invoices[k]) THEN invoices[k].amount.v ELSE 0)
    /\ AgedOf(u)' = AgedOf(u)
           - (IF IsOutstanding(invoices[k]) THEN invoices[k].amount.v ELSE 0)

SucceededMarkPaid == resp'.op = "mark_invoice_paid" /\ resp'.status = 200

\* C21 as stated: a successful mark_invoice_paid sets status "paid" and a
\* paid_date on one invoice of the caller and changes nothing else; the amount
\* then counts in total_revenue and in neither outstanding_ar nor an aging
\* bucket, and total_revenue + outstanding_ar is the same before and after.
C21_Original ==
    [][SucceededMarkPaid =>
          \E u \in UserIds : \E k \in DOMAIN invoices :
              /\ MarkedPaid(u, k)
              /\ CountsAsPaid(u, k)
              /\ RevenueOf(u)' + ArOf(u)' = RevenueOf(u) + ArOf(u)]_vars

\* C21 amended: as stated, except that total_revenue + outstanding_ar is the
\* same before and after when the invoice was unpaid, overdue or paid, and
\* grows by the amount of the invoice when it had any other status.
C21_MarkPaid ==
    [][SucceededMarkPaid =>
          \E u \in UserIds : \E k \in DOMAIN invoices :
              /\ MarkedPaid(u, k)
              /\ CountsAsPaid(u, k)
              /\ RevenueOf(u)' + ArOf(u)' =
                     RevenueOf(u) + ArOf(u)
                       + (IF IsPaid(invoices[k]) \/ IsOutstanding(invoices[k])
                          THEN 0 ELSE invoices[k].amount.v)]_vars

\* C21 witness: an invoice of the caller has just been marked paid (its
\* paid_date is the time of the call) next to another one that is still
\* outstanding
C21_Witness ==
    /\ resp.op = "mark_invoice_paid"
    /\ resp.status = 200
    /\ \E i, j \in Mine(resp.user) :
          /\ invoices[i].status = "paid"
          /\ invoices[i].paid_date = Iso(now)
          /\ invoices[j].status \in {"unpaid", "overdue"}

\* the documents of a collection, as a set
Recs(coll) == {coll[i] : i \in DOMAIN coll}

\* a document of client cid of user u
OfClient(d, u, cid) == d.user_id = u /\ d.client_id = cid

\* C22: when delete_client succeeds for client cid of user u, the store
\* holds no client cid of u and no project or invoice of u with that
\* client_id, and exactly the other documents are kept; a delete_client whose
\* id matches no client of u deletes no project and no invoice.
C22_DeleteClient ==
    [][\A u \in UserIds, cid \in CrudClientIds :
          delete_client(u, cid) =>
              /\ resp'.status = 200 =>
                    /\ Recs(clients') =
                          {d \in Recs(clients) : ~(d.user_id = u /\ d.id = cid)}
                    /\ Recs(projects') =
                          {d \in Recs(projects) : ~OfClient(d, u, cid)}
                    /\ Recs(invoices') =
                          {d \in Recs(invoices) : ~OfClient(d, u, cid)}
                    /\ Len(clients') = Cardinality(Recs(clients'))
                    /\ Len(projects') = Cardinality(Recs(projects'))
                    /\ Len(invoices') = Cardinality(Recs(invoices'))
              /\ MatchClient(u, cid) = {} =>
                    /\ resp'.status # 200
                    /\ UNCHANGED <<clients, projects, invoices>>]_vars

\* C22 witness: delete_client has succeeded for c1 of u1, and an invoice of
\* u1's other client and an invoice of u2 are still stored
C22_Witness ==
    /\ resp.op = "delete_client"
    /\ resp.status = 200
    /\ resp.user = "u1"
    /\ \A i \in DOMAIN clients : clients[i].id # "c1"
    /\ \E i \in DOMAIN invoices : OfClient(invoices[i], "u1", "c2")
    /\ \E i \in DOMAIN invoices : OfClient(invoices[i], "u2", "c3")

\* the ids of the stored invoices
InvoiceIdsIn(coll) == {coll[i].id : i \in DOMAIN coll}

\* C25: create_invoice with a client_id that names no client of the caller
\* is answered 400 and inserts nothing; with a client_id of a client of the
\* caller it inserts exactly one invoice, which carries the caller's user_id
\* and an id no stored invoice had.
C25_CreateInvoice ==
    [][\A u \in UserIds, data \in CrudInvoiceBodies :
          create_invoice(u, data) =>
              IF FindOneClient(u, data.client_id) = <<>>
              THEN resp'.status = 400 /\ invoices' = invoices
              ELSE /\ Len(invoices') = Len(invoices) + 1
                   /\ SubSeq(invoices', 1, Len(invoices)) = invoices
                   /\ invoices'[Len(invoices')].user_id = u
                   /\ invoices'[Len(invoices')].client_id = data.client_id
                   /\ invoices'[Len(invoices')].id \notin InvoiceIdsIn(invoices)]_vars

\* the step leaves the three collections as they are
StoreUnchanged == UNCHANGED <<clients, projects, invoices>>

\* C26: update_client, delete_client, update_invoice, delete_invoice,
\* mark_invoice_paid, update_project and delete_project, called with an id
\* that matches no record of the caller, answer 404 and leave the store
\* unchanged.
C26_NotFound ==
    [][\A u \in UserIds :
          /\ \A cid \in CrudClientIds :
                (MatchClient(u, cid) = {}
                 /\ (update_client(u, cid, ClientData(Renamed, Num(1)))
                     \/ delete_client(u, cid)))
                    => resp'.status = 404 /\ StoreUnchanged
          /\ \A id \in CrudInvoiceIds :
                (MatchInvoice(u, id) = {}
                 /\ (\/ \E data \in CrudInvoiceBodies : update_invoice(u, id, data)
                     \/ delete_invoice(u, id)
                     \/ mark_invoice_paid(u, id)))
                    => resp'.status = 404 /\ StoreUnchanged
          /\ \A id \in CrudProjectIds :
                (MatchProject(u, id) = {}
                 /\ (\/ \E data \in CrudProjectBodies : update_project(u, id, data)
                     \/ delete_project(u, id)))
                    => resp'.status = 404 /\ StoreUnchanged]_vars

\* C27: every stored invoice and every stored project names, in client_id,
\* a stored client of its own user.
C27_ReferentialIntegrity ==
    /\ \A i \in DOMAIN invoices :
          \E c \in DOMAIN clients :
              /\ clients[c].id = invoices[i].client_id
              /\ clients[c].user_id = invoices[i].user_id
    /\ \A p \in DOMAIN projects :
          \E c \in DOMAIN clients :
              /\ clients[c].id = projects[p].client_id
              /\ clients[c].user_id = projects[p].user_id

\* the records of user v in the three collections
RecordsOf(v) == <<FindUser(clients, v), FindUser(projects, v), FindUser(invoices, v)>>

\* what the analytics endpoints would answer user v on the current store
\* (a failing endpoint answers 500 whatever the body would have been).  Of
\* get_client_profitability the records before result.sort and of
\* get_rfm_analysis the rows before the scoring are taken: sorting and
\* scoring read nothing else.
AnswersTo(v) ==
    <<KpiRaises(v), IF KpiRaises(v) THEN <<>> ELSE KpiBody(v),
      AgingBody(v),
      ProfitabilityLoop(v, FindUser(clients, v)),
      RfmRaises(v), IF RfmRaises(v) THEN <<>> ELSE RfmData(v, FindUser(clients, v)),
      [cid \in CrudClientIds |->
          IF DetailsRaises(v, cid) THEN <<>> ELSE DetailsBody(v, cid)]>>

\* the documents a response carries
Returned(r) ==
    IF r.status # 200 THEN {}
    ELSE IF r.op \in {"get_clients", "get_invoices", "get_projects"}
         THEN {r.body[i] : i \in DOMAIN r.body}
    ELSE IF r.op \in {"create_invoice", "update_invoice", "update_client",
                      "create_project", "update_project"}
         THEN {r.body}
    ELSE {}

\* C29: a request of user u changes no record of another user v, returns
\* only documents whose user_id is u, and leaves every analytics answer to v
\* as it was: the stores before and after differ in records of u alone, and
\* v is answered the same on both (the answers read the three collections
\* and the clock, so a step that leaves these alone has nothing to compare).
C29_TenantIsolation ==
    [][\A u \in UserIds :
          resp'.user = u =>
              /\ \A d \in Returned(resp') : d.user_id = u
              /\ \A v \in UserIds \ {u} :
                    /\ RecordsOf(v)' = RecordsOf(v)
                    /\ \/ UNCHANGED <<clients, projects, invoices, now>>
                       \/ AnswersTo(v)' = AnswersTo(v)]_vars

\* C29 witness: u1 has updated its project while u2 holds a client and an
\* unpaid invoice of its own
C29_Witness ==
    /\ resp.op = "update_project"
    /\ resp.status = 200
    /\ resp.user = "u1"
    /\ resp.body.hours_worked = Num(3)
    /\ \E i \in DOMAIN invoices :
          OfClient(invoices[i], "u2", "c3") /\ invoices[i].status = "unpaid"
    /\ \E i \in DOMAIN clients : clients[i].user_id = "u2"

\* ----------------------------------------------------------------------
\* Authentication: register, login and the get_current_user dependency of
\* the protected endpoints.
\*
\* A credential is what the Authorization header carries: nothing, a string
\* that jwt.decode rejects (malformed, or signed with another key), or a
\* token signed with SECRET_KEY, of which the subject and the expiry count.
\* ----------------------------------------------------------------------
NoHeader == [kind |-> "none", sub |-> "", exp |-> 0]
Undecodable == [kind |-> "garbage", sub |-> "", exp |-> 0]
\* sub = "" stands for a payload without "sub"
Jwt(sub, exp) == [kind |-> "jwt", sub |-> sub, exp |-> exp]

\* ACCESS_TOKEN_EXPIRE_MINUTES = 1440, in days
TokenLifetime == 1

\* create_access_token(data={"sub": email}, expires_delta=...)
create_access_token(email) == Jwt(email, now + TokenLifetime)

\* db.users.find_one({"email": email}): the first match in natural order
FindOneUser(email) == SelectSeq(users, LAMBDA d : d.email = email)

UserIdPool == <<"u1", "u2", "u3", "u4", "u5">>

\* User(...).id, a uuid4: an id no stored user has
FreshUserId ==
    LET free == {k \in DOMAIN UserIdPool :
                    \A i \in DOMAIN users : users[i].id # UserIdPool[k]}
    IN UserIdPool[CHOOSE k \in free : \A j \in free : k <= j]

\* an HTTPException raised outside any try block reaches the client as it is
Rejected(name, code) == [op |-> name, user |-> "", status |-> code, body |-> <<>>]

\* the statuses HTTPBearer() answers a request without Authorization header
\* with, before get_current_user runs: 403 in the FastAPI releases up to
\* 0.121, 401 in the later ones; the repository pins no release
NoCredentialsStatuses == {401, 403}

\* jwt.decode raises (JWTError): bad signature or format, or expired
DecodeRaises(cred) == cred.kind # "jwt" \/ cred.exp < now

\* get_current_user raises credentials_exception (401)
CredentialsException(cred) ==
    \/ DecodeRaises(cred)
    \/ cred.sub = ""
    \/ FindOneUser(cred.sub) = <<>>

\* get_current_user: the user document the handler receives
CurrentUser(cred) == Head(FindOneUser(cred.sub))

\* GET /dashboard/kpis with the credentials of the request
protected_get_kpis(cred) ==
    IF cred.kind = "none"
    THEN /\ \E code \in NoCredentialsStatuses : resp' = Rejected("get_kpis", code)
         /\ UNCHANGED <<users, pending, clients, projects, invoices, now, call>>
    ELSE IF CredentialsException(cred)
    THEN /\ resp' = Rejected("get_kpis", 401)
         /\ UNCHANGED <<users, pending, clients, projects, invoices, now, call>>
    ELSE get_kpis(CurrentUser(cred).id)

\* the users collection grows by register only
MaxUsers == 4

\* POST /auth/register up to its first await: the lookup by email; a stored
\* email is answered 400, otherwise the request goes on to its insert
register_find(rid, email) ==
    /\ \A r \in pending : r.rid # rid
    /\ IF FindOneUser(email) # <<>>
       THEN /\ resp' = Rejected("register", 400)
            /\ UNCHANGED <<users, pending, clients, projects, invoices, now, call>>
       ELSE /\ Len(users) + Cardinality(pending) < MaxUsers
            /\ pending' = pending \cup {[rid |-> rid, email |-> email]}
            /\ UNCHANGED <<users, clients, projects, invoices, now, resp, call>>

\* the rest of register: insert_one, then the token for the new user
register_insert(r) ==
    /\ r \in pending
    /\ LET user == UserDoc(FreshUserId, r.email)
       IN /\ users' = Append(users, user)
          /\ resp' = Ok200("register", user.id,
                           [access_token |-> create_access_token(user.email),
                            user |-> user])
    /\ pending' = pending \ {r}
    /\ UNCHANGED <<clients, projects, invoices, now, call>>

\* POST /auth/login; verifies says whether the password matches the hash
login(email, verifies) ==
    /\ IF FindOneUser(email) = <<>> \/ ~verifies
       THEN resp' = Rejected("login", 401)
       ELSE LET user == Head(FindOneUser(email))
            IN resp' = Ok200("login", user.id,
                             [access_token |-> create_access_token(user.email),
                              user |-> user])
    /\ UNCHANGED <<users, pending, clients, projects, invoices, now, call>>

\* the requests of the slice: register calls r1 and r2 in flight together,
\* emails stored and new, every kind of credential
RegisterIds == {"r1", "r2"}
AuthEmails == {"a@x", "c@x", "d@x"}
Credentials ==
    {NoHeader, Undecodable}
        \cup {Jwt(sub, exp) : sub \in AuthEmails \cup {"b@x", ""},
                              exp \in {Today - 1, Today + 1}}

InitAuth ==
    /\ users = StoredUsers
    /\ pending = NoPending
    /\ clients = <<ClientDoc("u1", "c1", ClientName)>>
    /\ projects = <<>>
    /\ invoices = <<InvoiceDoc("u1", "c1", "paid", Num(100), Num(2),
                               Iso(50), Iso(80), Iso(90))>>
    /\ now = Today
    /\ resp = NoResp
    /\ call = NoCall

NextAuth ==
    \/ \E rid \in RegisterIds, email \in AuthEmails : register_find(rid, email)
    \/ \E r \in pending : register_insert(r)
    \/ \E email \in AuthEmails, verifies \in BOOLEAN : login(email, verifies)
    \/ \E cred \in Credentials : protected_get_kpis(cred)

SpecAuth == InitAuth /\ [][NextAuth]_vars

\* the credentials get_current_user accepts: a token signed with the key,
\* not expired, whose subject is the email of a stored user
ValidCredentials(cred) ==
    /\ cred.kind = "jwt"
    /\ cred.exp >= now
    /\ cred.sub # ""
    /\ \E i \in DOMAIN users : users[i].email = cred.sub

\* C23: a call to the protected endpoint dashboard/kpis without valid
\* credentials (no token, an undecodable or expired token, a token without
\* subject, a subject that matches no stored user) is answered 401 and
\* carries no data.
C23_Unauthorized ==
    [][\A cred \in Credentials :
          (protected_get_kpis(cred) /\ ~ValidCredentials(cred)) =>
              resp'.status = 401 /\ resp'.body = <<>>]_vars

\* C28: no two user documents carry the same email.
C28_UniqueEmail ==
    \A i, j \in DOMAIN users : i # j => users[i].email # users[j].email
====
